---- MODULE Spec2Model ----
(***************************************************************************)
(* CodeSage.ai api/app.py: the streaming relay (cerebras_stream) and the   *)
(* two TTL/size-bounded caches (GitHubCache, ResponseCache).               *)
(*                                                                         *)
(* Times are integers.  The relay clock counts tenths of a second, so that *)
(* the backoff waits 1.2 s and 2.4 s are the integers 12 and 24; the cache *)
(* clock counts whole seconds.                                             *)
(***************************************************************************)
EXTENDS Integers, Sequences, FiniteSets, TLC

(***************************************************************************)
(* Bounds of the model.                                                    *)
(***************************************************************************)
MaxLines == 2      \* upstream lines delivered in one session before its [DONE] line
MaxTicks == 2      \* clock advances during the stream phase of a session
Ttl == 2           \* ttl_seconds a cache is constructed with
MaxClock == 3      \* last second of the cache clock
MaxCalls == 2      \* get/set calls one thread makes on the shared cache
MaxSourceLines == 2 \* lines of a source text given to sanitize_code
MaxRequests == 2   \* requests the service handles
MaxRecords == 4    \* record_request calls made on one Metrics instance

(***************************************************************************)
(* Program constants.                                                      *)
(***************************************************************************)
HEARTBEAT_INTERVAL == 8     \* seconds
max_retries == 3
BackoffBaseTenths == 12     \* the factor 1.2 (seconds) of wait_time, in tenths

None == "None"

VARIABLES
    \* ---- one relay session: the generator cerebras_stream ----
    pc,             \* where the generator is (running position or the yield it is suspended at)
    attempt,        \* loop variable of the retry loop (0-based)
    outcomes,       \* log: outcome of every requests.post made, in order
    sleeps,         \* log: every time.sleep(wait_time) made, in tenths of a second
    events,         \* every frame handed to the consumer, in order
    now,            \* time.time(), tenths of a second
    ticks,          \* number of clock advances taken in the stream phase
    last_emit,
    last_heartbeat,
    raw,            \* the line of the current loop iteration
    lineNow,        \* the local 'now' of the current loop iteration
    received,       \* log: every line resp.iter_lines has delivered
    cancelled,      \* "no", "clean" (close() returned) or "RuntimeError" (close() raised)
    discarded,      \* frames the generator yielded into close(): never delivered
    stamps,         \* history: per frame of events, the time it was yielded at and the
                    \*   number of the upstream line it was yielded for (0: for none)
    arrivals,       \* history: per line of received, the time it was delivered at
    blockedSince,   \* history: since when the generator has been waiting for upstream
    broke,          \* history: the exception resp.iter_lines raised (None: it has not)
    conn            \* the connection behind resp: "none", "open" or "released"

relayVars == <<pc, attempt, outcomes, sleeps, events, stamps, now, ticks, last_emit,
               last_heartbeat, raw, lineNow, received, arrivals, blockedSince, cancelled,
               discarded, broke, conn>>

VARIABLES
    \* ---- one cache instance and its single caller ----
    cache,          \* the instance: max_size, ttl_seconds, _cache, _access_times
    clock,          \* time.time(), seconds
    lastCall,       \* the get/set that has just returned (NoCall once the clock moved on)
    hist,           \* history: per key, what the caller's own calls say about it
    inserted,       \* history: the keys set so far
    fresh,          \* history: every set so far was of a new key and no entry has expired
    lastEvict       \* history: the last eviction for room

cacheVars == <<cache, clock, lastCall, hist, inserted, fresh, lastEvict>>

VARIABLES
    \* ---- request threads calling get/set on the shared instance 'cache' ----
    threads         \* per thread: position inside its current call, locals, calls made

VARIABLES
    \* ---- sanitize_code applied to one source text ----
    source,         \* the argument raw, a string (sequence of characters)
    sanitized       \* the call's result (NotRun before the call)

sanitizeVars == <<source, sanitized>>

VARIABLES
    \* ---- the service: the review handler, the metrics, the two global caches ----
    metrics,        \* the Metrics instance
    recorded,       \* history: the record_request calls made, and those with success=True
    response_cache, \* the ResponseCache instance
    request,        \* history: the request handled last and what was done for it
    served,         \* history: the cache keys of the requests answered with a stream
    handled,        \* history: the number of requests handled
    fetch           \* history: the fetch_code call made last and what it met

serviceVars == <<metrics, recorded, response_cache, request, served, handled, fetch>>

vars == <<relayVars, cacheVars, threads, sanitizeVars, serviceVars>>

\* what an action of one part leaves alone
notRelay == <<cacheVars, threads, sanitizeVars, serviceVars>>
notCache == <<relayVars, threads, sanitizeVars, serviceVars>>
notThreads == <<relayVars, lastCall, hist, inserted, fresh, lastEvict, sanitizeVars, serviceVars>>
notSanitize == <<relayVars, cacheVars, threads, serviceVars>>
notService == <<relayVars, lastCall, hist, inserted, fresh, lastEvict, threads, sanitizeVars,
                fetch>>
notTwins == <<relayVars, lastCall, hist, inserted, fresh, lastEvict, threads, sanitizeVars,
              metrics, recorded, request, served, handled, fetch>>
notFetch == <<relayVars, lastCall, hist, inserted, fresh, lastEvict, threads, sanitizeVars,
              metrics, recorded, response_cache, request, served, handled>>

(***************************************************************************)
(* chunk(content, event, done): one SSE frame.  The frame is the record of *)
(* the three things the payload varies in; "done" is present only on a     *)
(* frame built with done=True, modelled as the flag.                       *)
(***************************************************************************)
chunk(content, event, done) == [event |-> event, content |-> content, done |-> done]

SentinelFrame == [event |-> "[DONE]", content |-> "", done |-> FALSE]

(***************************************************************************)
(* What upstream can answer to one requests.post.                          *)
(***************************************************************************)
BadStatuses == {401, 500}
Faults == {"timeout", "refused"}
StreamFaults == {"reset"}

ApiErrorMsg(status) == "[API error] " \o ToString(status)
ConnErrorMsg(e) == "[Connection error] " \o e
StreamErrorMsg(e) == "[Stream error] " \o e

(***************************************************************************)
(* Upstream lines.  A line is the record of its framing ("data:" prefix or *)
(* not) and its body after strip(); a JSON body carries its "choices".     *)
(* A choice is one of                                                      *)
(*   [shape |-> "content", content |-> s]   {"delta": {"content": s}}      *)
(*   [shape |-> "nocontent"]                {"delta": {}}                  *)
(*   [shape |-> "nodelta"]                  {} or null or {"index": 0}     *)
(*   [shape |-> "deltanull"]                {"delta": null}                *)
(*   [shape |-> "contentnull"]              {"delta": {"content": null}}   *)
(***************************************************************************)
Choice(shape, s) == [shape |-> shape, content |-> s]

Line(framed, kind, text, choices) ==
    [framed |-> framed, kind |-> kind, text |-> text, choices |-> choices]

Lines ==
    { Line(FALSE, "blank", "", <<>>),
      Line(TRUE,  "done", "[DONE]", <<>>),
      Line(FALSE, "done", "[DONE]", <<>>),
      Line(FALSE, "text", "plain text", <<>>),
      Line(TRUE,  "badjson", "{oops}", <<>>),
      Line(TRUE,  "json", "{He}", <<Choice("content", "He")>>),
      Line(TRUE,  "json", "{llo}", <<Choice("content", "llo")>>),
      Line(TRUE,  "json", "{a,b}", <<Choice("content", "a"), Choice("nodelta", ""), Choice("content", "b")>>),
      Line(TRUE,  "json", "{}", <<>>),
      Line(TRUE,  "json", "{empty}", <<Choice("content", ""), Choice("nocontent", "")>>),
      Line(TRUE,  "json", "{deltanull}", <<Choice("deltanull", "")>>) }

\* The lines upstream sends in the sessions that exercise the retry loop: one
\* of each outcome of a loop iteration (continue, break, token, raise).
RetryLines == { l \in Lines : l.text \in {"", "[DONE]", "{He}", "{deltanull}"} }

\* A loop over the choices that keeps the content of the last one only.
RECURSIVE JoinChoices_LastWins(_, _)
JoinChoices_LastWins(choices, acc) ==
    IF choices = <<>> THEN [raised |-> FALSE, content |-> acc]
    ELSE LET c == Head(choices) IN
         CASE c.shape = "content"     -> JoinChoices_LastWins(Tail(choices), c.content)
           [] c.shape = "nocontent"   -> JoinChoices_LastWins(Tail(choices), acc)
           [] c.shape = "nodelta"     -> JoinChoices_LastWins(Tail(choices), acc)
           [] c.shape = "deltanull"   -> [raised |-> TRUE, content |-> "TypeError"]
           [] c.shape = "contentnull" -> [raised |-> TRUE, content |-> "TypeError"]

(***************************************************************************)
(* Lines 776-781: the loop over obj["choices"].  Returns the accumulated   *)
(* content, or raises (TypeError) at a null delta or a null content.       *)
(***************************************************************************)
RECURSIVE JoinChoices(_, _)
JoinChoices(choices, acc) ==
    IF choices = <<>> THEN [raised |-> FALSE, content |-> acc]
    ELSE LET c == Head(choices) IN
         CASE c.shape = "content"     -> JoinChoices(Tail(choices), acc \o c.content)
           [] c.shape = "nocontent"   -> JoinChoices(Tail(choices), acc)
           [] c.shape = "nodelta"     -> JoinChoices(Tail(choices), acc)
           [] c.shape = "deltanull"   -> [raised |-> TRUE, content |-> "TypeError"]
           [] c.shape = "contentnull" -> [raised |-> TRUE, content |-> "TypeError"]

\* A normalizer that does not know the [DONE] line.
ProcessLine_DoneIgnored(l) ==
    CASE l.kind = "blank"   -> [act |-> "continue", content |-> ""]
      [] l.kind = "done"    -> [act |-> "continue", content |-> ""]
      [] l.kind = "text"    -> [act |-> "continue", content |-> ""]
      [] l.kind = "badjson" -> [act |-> "continue", content |-> ""]
      [] l.kind = "json"    ->
            IF l.choices = <<>> THEN [act |-> "continue", content |-> ""]
            ELSE LET j == JoinChoices(l.choices, "") IN
                 IF j.raised THEN [act |-> "raise", content |-> j.content]
                 ELSE IF j.content # "" THEN [act |-> "token", content |-> j.content]
                 ELSE [act |-> "continue", content |-> ""]

\* A normalizer that yields a Token for every JSON chunk with choices, empty or not.
ProcessLine_EmitsEmpty(l) ==
    CASE l.kind = "blank"   -> [act |-> "continue", content |-> ""]
      [] l.kind = "done"    -> [act |-> "break", content |-> ""]
      [] l.kind = "text"    -> [act |-> "continue", content |-> ""]
      [] l.kind = "badjson" -> [act |-> "continue", content |-> ""]
      [] l.kind = "json"    ->
            IF l.choices = <<>> THEN [act |-> "continue", content |-> ""]
            ELSE LET j == JoinChoices(l.choices, "") IN
                 IF j.raised THEN [act |-> "raise", content |-> j.content]
                 ELSE [act |-> "token", content |-> j.content]

\* A normalizer that relays as a Token the text of every line it cannot parse.
ProcessLine_RawFallback(l) ==
    CASE l.kind = "blank"   -> [act |-> "continue", content |-> ""]
      [] l.kind = "done"    -> [act |-> "break", content |-> ""]
      [] l.kind = "text"    -> [act |-> "token", content |-> l.text]
      [] l.kind = "badjson" -> [act |-> "token", content |-> l.text]
      [] l.kind = "json"    ->
            IF l.choices = <<>> THEN [act |-> "token", content |-> l.text]
            ELSE LET j == JoinChoices(l.choices, "") IN
                 IF j.raised THEN [act |-> "raise", content |-> j.content]
                 ELSE IF j.content # "" THEN [act |-> "token", content |-> j.content]
                 ELSE [act |-> "token", content |-> l.text]

(***************************************************************************)
(* Lines 762-788: what one line does.  act is                              *)
(*   "continue"  nothing is emitted, the loop reads the next line          *)
(*   "break"     [DONE]: the loop is left                                  *)
(*   "token"     chunk(content, "token") is yielded                        *)
(*   "raise"     an exception other than JSONDecodeError leaves the loop   *)
(***************************************************************************)
ProcessLine(l) ==
    CASE l.kind = "blank"   -> [act |-> "continue", content |-> ""]
      [] l.kind = "done"    -> [act |-> "break", content |-> ""]
      [] l.kind = "text"    -> [act |-> "continue", content |-> ""]
      [] l.kind = "badjson" -> [act |-> "continue", content |-> ""]
      [] l.kind = "json"    ->
            IF l.choices = <<>> THEN [act |-> "continue", content |-> ""]
            ELSE LET j == JoinChoices(l.choices, "") IN
                 IF j.raised THEN [act |-> "raise", content |-> j.content]
                 ELSE IF j.content # "" THEN [act |-> "token", content |-> j.content]
                 ELSE [act |-> "continue", content |-> ""]

(***************************************************************************)
(* The relay session.                                                      *)
(*                                                                         *)
(* pc is "created" before the first next(), a running position ("attempt": *)
(* about to call requests.post; "reading": blocked in resp.iter_lines), a  *)
(* yield the generator is suspended at, or "closed".                       *)
(***************************************************************************)
OpenErrorYields == {"y_api_error", "y_conn_error"}                  \* lines 735, 743
StreamYields == {"y_start", "y_heartbeat", "y_token"}               \* lines 751, 759, 784
TailYields == {"y_stream_error", "y_end", "y_sentinel"}             \* lines 796, 799, 800
Yields == OpenErrorYields \cup StreamYields \cup TailYields

InitRelay ==
    /\ pc = "created"
    /\ attempt = 0
    /\ outcomes = <<>>
    /\ sleeps = <<>>
    /\ events = <<>>
    /\ now = 0
    /\ ticks = 0
    /\ last_emit = 0
    /\ last_heartbeat = 0
    /\ raw = None
    /\ lineNow = 0
    /\ received = <<>>
    /\ cancelled = "no"
    /\ discarded = <<>>
    /\ stamps = <<>>
    /\ arrivals = <<>>
    /\ blockedSince = 0
    /\ broke = None
    /\ conn = "none"

Outcome(kind, status, exc) == [kind |-> kind, status |-> status, exc |-> exc]

\* a frame is yielded while line n of the upstream is processed (n = 0: outside
\* the processing of a line)
EmitFor(frame, n) ==
    /\ events' = Append(events, frame)
    /\ stamps' = Append(stamps, [t |-> now, line |-> n])

Emit(frame) == EmitFor(frame, 0)

\* A backoff whose exponent counts attempts from 1 where the code counts from 0.
wait_time_OneBased(a) == (2 ^ (a + 1)) * BackoffBaseTenths

\* line 745
wait_time(a) == (2 ^ a) * BackoffBaseTenths

\* A final-attempt test that is off by one: it never holds inside range(max_retries).
IsFinalAttempt_OffByOne(a) == a = max_retries

\* A retry loop that never takes an attempt for its last.
IsFinalAttempt_Never(a) == FALSE

\* line 740
IsFinalAttempt(a) == a = max_retries - 1

\* A heartbeat test that needs more than the interval to have passed.
HeartbeatDue_Strict(t) == t - last_heartbeat > HEARTBEAT_INTERVAL * 10

\* line 758
HeartbeatDue(t) == t - last_heartbeat >= HEARTBEAT_INTERVAL * 10

\* The first next() starts the body: the retry loop is entered with attempt = 0.
Begin ==
    /\ UNCHANGED notRelay
    /\ pc = "created"
    /\ pc' = "attempt"
    /\ UNCHANGED <<attempt, outcomes, sleeps, events, stamps, now, ticks, last_emit,
                   last_heartbeat, raw, lineNow, received, arrivals, blockedSince, cancelled, discarded, broke, conn>>

\* lines 731-738, 749-751: status 200, the loop is left and Start is yielded.
AttemptOk ==
    /\ UNCHANGED notRelay
    /\ pc = "attempt"
    /\ attempt < max_retries
    /\ outcomes' = Append(outcomes, Outcome("status", 200, None))
    /\ last_emit' = now
    /\ last_heartbeat' = now
    /\ Emit(chunk("", "start", FALSE))
    /\ pc' = "y_start"
    /\ conn' = "open"
    /\ UNCHANGED <<attempt, sleeps, now, ticks, raw, lineNow, received, arrivals,
                   blockedSince, cancelled, discarded, broke>>

\* A relay that treats a status other than 200 like a network fault and retries.
AttemptRejected_Retried(status) ==
    /\ UNCHANGED notRelay
    /\ pc = "attempt"
    /\ attempt < max_retries
    /\ outcomes' = Append(outcomes, Outcome("status", status, None))
    /\ IF attempt = max_retries - 1
         THEN /\ Emit(chunk(ApiErrorMsg(status), "error", TRUE))
              /\ pc' = "y_api_error"
              /\ UNCHANGED attempt
         ELSE /\ attempt' = attempt + 1
              /\ pc' = "attempt"
              /\ UNCHANGED <<events, stamps>>
    /\ UNCHANGED <<sleeps, now, ticks, last_emit, last_heartbeat, raw,
                   lineNow, received, arrivals, blockedSince, cancelled, discarded, broke, conn>>

\* lines 732-736: a status other than 200.
AttemptRejected(status) ==
    /\ UNCHANGED notRelay
    /\ pc = "attempt"
    /\ attempt < max_retries
    /\ outcomes' = Append(outcomes, Outcome("status", status, None))
    /\ Emit(chunk(ApiErrorMsg(status), "error", TRUE))
    /\ pc' = "y_api_error"
    /\ UNCHANGED <<attempt, sleeps, now, ticks, last_emit, last_heartbeat, raw,
                   lineNow, received, arrivals, blockedSince, cancelled, discarded, broke, conn>>

\* A relay that reports every failed attempt to the consumer before retrying.
AttemptFault_Reported(e) ==
    /\ UNCHANGED notRelay
    /\ pc = "attempt"
    /\ attempt < max_retries
    /\ outcomes' = Append(outcomes, Outcome("fault", 0, e))
    /\ Emit(chunk(ConnErrorMsg(e), "error", attempt = max_retries - 1))
    /\ IF attempt = max_retries - 1
         THEN /\ pc' = "y_conn_error"
              /\ UNCHANGED <<attempt, sleeps, now>>
         ELSE /\ sleeps' = Append(sleeps, (2 ^ attempt) * BackoffBaseTenths)
              /\ now' = now + (2 ^ attempt) * BackoffBaseTenths
              /\ attempt' = attempt + 1
              /\ pc' = "attempt"
    /\ UNCHANGED <<ticks, last_emit, last_heartbeat, raw, lineNow, received, arrivals, blockedSince,
                   cancelled, discarded, broke, conn>>

\* lines 739-747: requests.post raised (connection error, timeout).
AttemptFault(e) ==
    /\ UNCHANGED notRelay
    /\ pc = "attempt"
    /\ attempt < max_retries
    /\ outcomes' = Append(outcomes, Outcome("fault", 0, e))
    /\ IF IsFinalAttempt(attempt)
         THEN /\ Emit(chunk(ConnErrorMsg(e), "error", TRUE))
              /\ pc' = "y_conn_error"
              /\ UNCHANGED <<attempt, sleeps, now>>
         ELSE /\ sleeps' = Append(sleeps, wait_time(attempt))
              /\ now' = now + wait_time(attempt)
              /\ attempt' = attempt + 1
              /\ pc' = "attempt"
              /\ UNCHANGED <<events, stamps>>
    /\ UNCHANGED <<ticks, last_emit, last_heartbeat, raw, lineNow, received, arrivals, blockedSince,
                   cancelled, discarded, broke, conn>>

\* A relay whose open-failure path runs through the finally block of the stream.
ResumeOpenError_ThroughFinally ==
    /\ UNCHANGED notRelay
    /\ pc \in OpenErrorYields
    /\ EmitFor(chunk("", "end", TRUE), 0)
    /\ pc' = "y_end"
    /\ UNCHANGED <<attempt, outcomes, sleeps, now, ticks, last_emit,
                   last_heartbeat, raw, lineNow, received, arrivals, blockedSince, cancelled, discarded, broke, conn>>

\* lines 736, 744: resumed after the terminal error frame, the generator returns.
ResumeOpenError ==
    /\ UNCHANGED notRelay
    /\ pc \in OpenErrorYields
    /\ pc' = "closed"
    /\ UNCHANGED <<attempt, outcomes, sleeps, events, stamps, now, ticks, last_emit,
                   last_heartbeat, raw, lineNow, received, arrivals, blockedSince, cancelled, discarded, broke, conn>>

\* lines 753-754: resumed after Start, the generator blocks in resp.iter_lines.
ResumeStart ==
    /\ UNCHANGED notRelay
    /\ pc = "y_start"
    /\ pc' = "reading"
    /\ blockedSince' = now
    /\ UNCHANGED <<attempt, outcomes, sleeps, events, stamps, now, ticks, last_emit,
                   last_heartbeat, raw, lineNow, received, arrivals, cancelled, discarded, broke, conn>>

\* lines 797-799: the finally block yields End.
EnterFinally(n) ==
    /\ EmitFor(chunk("", "end", TRUE), n)
    /\ pc' = "y_end"

\* lines 762-788, then 793-799 when the line raises.
HandleLine(l, n) ==
    LET r == ProcessLine(l) IN
    CASE r.act = "continue" -> /\ pc' = "reading"
                               /\ blockedSince' = now
                               /\ UNCHANGED <<events, stamps>>
      [] r.act = "break"    -> EnterFinally(n) /\ UNCHANGED blockedSince
      [] r.act = "token"    -> /\ EmitFor(chunk(r.content, "token", FALSE), n)
                               /\ pc' = "y_token"
                               /\ UNCHANGED blockedSince
      [] r.act = "raise"    -> /\ EmitFor(chunk(StreamErrorMsg(r.content), "error", FALSE), n)
                               /\ pc' = "y_stream_error"
                               /\ UNCHANGED blockedSince

\* lines 754-760: upstream delivers a line; the heartbeat test comes first.
RecvLine(l) ==
    /\ UNCHANGED notRelay
    /\ pc = "reading"
    /\ l.kind = "done" \/ Len(received) < MaxLines
    /\ received' = Append(received, l)
    /\ raw' = l
    /\ lineNow' = now
    /\ arrivals' = Append(arrivals, now)
    /\ IF HeartbeatDue(now)
         THEN /\ EmitFor(chunk("", "heartbeat", FALSE), Len(received) + 1)
              /\ pc' = "y_heartbeat"
              /\ UNCHANGED blockedSince
         ELSE HandleLine(l, Len(received) + 1)
    /\ UNCHANGED <<attempt, outcomes, sleeps, now, ticks, last_emit, last_heartbeat,
                   cancelled, discarded, broke, conn>>

\* A relay that never restarts the heartbeat timer.
ResumeHeartbeat_NoReset ==
    /\ UNCHANGED notRelay
    /\ pc = "y_heartbeat"
    /\ HandleLine(raw, Len(received))
    /\ UNCHANGED <<attempt, outcomes, sleeps, now, ticks, last_emit, last_heartbeat, raw,
                   lineNow, received, arrivals, cancelled, discarded, broke, conn>>

\* line 760, then the rest of the iteration.
ResumeHeartbeat ==
    /\ UNCHANGED notRelay
    /\ pc = "y_heartbeat"
    /\ last_heartbeat' = lineNow
    /\ HandleLine(raw, Len(received))
    /\ UNCHANGED <<attempt, outcomes, sleeps, now, ticks, last_emit, raw, lineNow,
                   received, arrivals, cancelled, discarded, broke, conn>>

\* line 785
ResumeToken ==
    /\ UNCHANGED notRelay
    /\ pc = "y_token"
    /\ last_emit' = now
    /\ pc' = "reading"
    /\ blockedSince' = now
    /\ UNCHANGED <<attempt, outcomes, sleeps, events, stamps, now, ticks, last_heartbeat,
                   raw, lineNow, received, arrivals, cancelled, discarded, broke, conn>>

\* line 754: upstream closed the response, the for loop ends; finally.
RecvClose ==
    /\ UNCHANGED notRelay
    /\ pc = "reading"
    /\ EnterFinally(0)
    /\ conn' = "released"
    /\ UNCHANGED <<attempt, outcomes, sleeps, now, ticks, last_emit, last_heartbeat,
                   raw, lineNow, received, arrivals, blockedSince, cancelled, discarded, broke>>

\* A relay that marks the stream error as the terminal frame.
RecvFault_Terminal(e) ==
    /\ UNCHANGED notRelay
    /\ pc = "reading"
    /\ Emit(chunk(StreamErrorMsg(e), "error", TRUE))
    /\ pc' = "y_stream_error"
    /\ broke' = e
    /\ conn' = "released"
    /\ UNCHANGED <<attempt, outcomes, sleeps, now, ticks, last_emit, last_heartbeat,
                   raw, lineNow, received, arrivals, blockedSince, cancelled, discarded>>

\* A relay that swallows the failure of the line source.
RecvFault_Silent(e) ==
    /\ UNCHANGED notRelay
    /\ pc = "reading"
    /\ EnterFinally(0)
    /\ broke' = e
    /\ conn' = "released"
    /\ UNCHANGED <<attempt, outcomes, sleeps, now, ticks, last_emit, last_heartbeat,
                   raw, lineNow, received, arrivals, blockedSince, cancelled, discarded>>

\* lines 793-796: resp.iter_lines raised.
RecvFault(e) ==
    /\ UNCHANGED notRelay
    /\ pc = "reading"
    /\ Emit(chunk(StreamErrorMsg(e), "error", FALSE))
    /\ pc' = "y_stream_error"
    /\ broke' = e
    /\ conn' = "released"
    /\ UNCHANGED <<attempt, outcomes, sleeps, now, ticks, last_emit, last_heartbeat,
                   raw, lineNow, received, arrivals, blockedSince, cancelled, discarded>>

\* A relay whose stream-error handler returns without a finally block.
ResumeStreamError_Returns ==
    /\ UNCHANGED notRelay
    /\ pc = "y_stream_error"
    /\ pc' = "closed"
    /\ UNCHANGED <<attempt, outcomes, sleeps, events, stamps, now, ticks, last_emit, last_heartbeat,
                   raw, lineNow, received, arrivals, blockedSince, cancelled, discarded, broke, conn>>

\* lines 797-799: resumed after the stream Error frame; finally.
ResumeStreamError ==
    /\ UNCHANGED notRelay
    /\ pc = "y_stream_error"
    /\ EnterFinally(0)
    /\ UNCHANGED <<attempt, outcomes, sleeps, now, ticks, last_emit, last_heartbeat,
                   raw, lineNow, received, arrivals, blockedSince, cancelled, discarded, broke, conn>>

\* line 800
ResumeEnd ==
    /\ UNCHANGED notRelay
    /\ pc = "y_end"
    /\ Emit(SentinelFrame)
    /\ pc' = "y_sentinel"
    /\ UNCHANGED <<attempt, outcomes, sleeps, now, ticks, last_emit, last_heartbeat,
                   raw, lineNow, received, arrivals, blockedSince, cancelled, discarded, broke, conn>>

\* resumed after the sentinel, the generator ends.
ResumeSentinel ==
    /\ UNCHANGED notRelay
    /\ pc = "y_sentinel"
    /\ pc' = "closed"
    /\ UNCHANGED <<attempt, outcomes, sleeps, events, stamps, now, ticks, last_emit,
                   last_heartbeat, raw, lineNow, received, arrivals, blockedSince, cancelled, discarded, broke, conn>>

(***************************************************************************)
(* The consumer closes the generator: GeneratorExit is raised at the yield *)
(* it is suspended at.  At lines 759 and 784 "except GeneratorExit"        *)
(* returns and at line 796 the exception leaves the handler; in all three  *)
(* the finally block runs and yields End into close(), which then raises   *)
(* RuntimeError (generator ignored GeneratorExit) and drops the frame.     *)
(* At every other yield no finally with a yield is on the way out.         *)
(***************************************************************************)
YieldsUnderFinally == {"y_heartbeat", "y_token", "y_stream_error"}

Close ==
    /\ UNCHANGED notRelay
    /\ pc \in Yields \cup {"created"}
    /\ cancelled = "no"
    /\ IF pc \in YieldsUnderFinally
         THEN /\ cancelled' = "RuntimeError"
              /\ discarded' = Append(discarded, chunk("", "end", TRUE))
         ELSE /\ cancelled' = "clean"
              /\ UNCHANGED discarded
    /\ pc' = "closed"
    /\ UNCHANGED <<attempt, outcomes, sleeps, events, stamps, now, ticks, last_emit,
                   last_heartbeat, raw, lineNow, received, arrivals, blockedSince, broke, conn>>

(***************************************************************************)
(* The connection behind resp (line 731, stream=True).  It is released     *)
(* when the body has been read to its end or the read failed; the code     *)
(* never calls resp.close() and opens resp without a with statement, so    *)
(* after [DONE], after an exception of the loop body and after a close()   *)
(* of the generator the connection stays open, unread data included, until *)
(* the runtime collects the abandoned generator and its resp: at once or   *)
(* later, as the runtime pleases.                                          *)
(***************************************************************************)
Collect ==
    /\ UNCHANGED notRelay
    /\ pc = "closed"
    /\ conn = "open"
    /\ conn' = "released"
    /\ UNCHANGED <<pc, attempt, outcomes, sleeps, events, stamps, now, ticks, last_emit,
                   last_heartbeat, raw, lineNow, received, arrivals, blockedSince,
                   cancelled, discarded, broke>>

\* Time passes while the generator is suspended or blocked on upstream.
TickSteps == {40, 80}

Tick(d) ==
    /\ UNCHANGED notRelay
    /\ pc \in StreamYields \cup {"reading"}
    /\ ticks < MaxTicks
    /\ now' = now + d
    /\ ticks' = ticks + 1
    /\ UNCHANGED <<pc, attempt, outcomes, sleeps, events, stamps, last_emit, last_heartbeat,
                   raw, lineNow, received, arrivals, blockedSince, cancelled, discarded, broke, conn>>

NextSession(lineSet, faultSet) ==
    \/ Begin
    \/ AttemptOk
    \/ \E s \in BadStatuses : AttemptRejected(s)
    \/ \E e \in faultSet : AttemptFault(e)
    \/ ResumeOpenError
    \/ ResumeStart
    \/ \E l \in lineSet : RecvLine(l)
    \/ ResumeHeartbeat
    \/ ResumeToken
    \/ RecvClose
    \/ \E e \in StreamFaults : RecvFault(e)
    \/ ResumeStreamError
    \/ ResumeEnd
    \/ ResumeSentinel
    \/ Close
    \/ Collect
    \/ \E d \in TickSteps : Tick(d)


(***************************************************************************)
(* GitHubCache and ResponseCache.  The two classes have the same fields    *)
(* and, statement for statement, the same _is_expired, _evict_expired, get *)
(* and set; the definitions below are those methods.                       *)
(*                                                                         *)
(* An instance is the record of its fields.  _cache is a function (its     *)
(* order is never read); _access_times is the sequence of its items in     *)
(* insertion order, because min() over it returns the first minimal key.   *)
(* One call reads the clock once: the time.time() readings of one call     *)
(* are microseconds apart and the clock counts seconds.                    *)
(***************************************************************************)
Keys == {"k1", "k2", "k3"}
Values == {"v1", "v2"}
Capacities == {0, 1, 2}         \* the max_size values a cache is constructed with

\* __init__, lines 285-289 and 322-326
NewCache(max_size, ttl_seconds) ==
    [max_size |-> max_size, ttl_seconds |-> ttl_seconds,
     _cache |-> <<>>, _access_times |-> <<>>]

\* dict operations
DictKeys(items) == { items[i].key : i \in DOMAIN items }
DictGet(items, key) == items[CHOOSE i \in DOMAIN items : items[i].key = key].t
DictDel(items, key) == SelectSeq(items, LAMBDA e : e.key # key)
DictPut(items, key, t) ==
    IF key \in DictKeys(items)
      THEN [i \in DOMAIN items |-> IF items[i].key = key THEN [key |-> key, t |-> t] ELSE items[i]]
      ELSE Append(items, [key |-> key, t |-> t])
MapDel(m, key) == [x \in DOMAIN m \ {key} |-> m[x]]
MapPut(m, key, value) == [x \in DOMAIN m \cup {key} |-> IF x = key THEN value ELSE m[x]]

\* An expiry test that already fires when exactly ttl_seconds have passed.
IsExpired_AtTtl(c, key, t) == t - DictGet(c._access_times, key) >= c.ttl_seconds

\* _is_expired, lines 291-292 and 328-329
IsExpired(c, key, t) == t - DictGet(c._access_times, key) > c.ttl_seconds

\* A purge that leaves expired entries where they are.
EvictExpired_Keeps(c, t) == [c |-> c, raised |-> None]

\* A purge that deletes the expired values and leaves their timestamps.
EvictExpired_ValuesOnly(c, t) ==
    LET expired_keys == { k \in DictKeys(c._access_times) : IsExpired(c, k, t) } IN
    [c |-> [c EXCEPT !._cache = [x \in DOMAIN c._cache \ expired_keys |-> c._cache[x]]],
     raised |-> None]

\* _evict_expired, lines 294-298 and 331-335.  del raises KeyError when a key of
\* _access_times is missing from _cache.
EvictExpired(c, t) ==
    LET expired_keys == { k \in DictKeys(c._access_times) : IsExpired(c, k, t) }
        present == expired_keys \cap DOMAIN c._cache
    IN  [c |-> [c EXCEPT !._cache = [x \in DOMAIN c._cache \ expired_keys |-> c._cache[x]],
                         !._access_times = SelectSeq(c._access_times,
                                                     LAMBDA e : e.key \notin present)],
         raised |-> IF present = expired_keys THEN None ELSE "KeyError"]

\* A get that returns the value without refreshing the access time.
TouchOnGet_Never(items, key, t) == items

\* lines 303 and 340
TouchOnGet(items, key, t) == DictPut(items, key, t)

\* A get that looks the key up without purging first.
CacheGet_NoPurge(c, key, t) ==
    IF key \in DOMAIN c._cache
      THEN [c |-> [c EXCEPT !._access_times = TouchOnGet(c._access_times, key, t)],
            ret |-> c._cache[key], raised |-> None, evicted |-> None]
      ELSE [c |-> c, ret |-> None, raised |-> None, evicted |-> None]

\* get, lines 300-305 and 337-342
CacheGet(c, key, t) ==
    LET p == EvictExpired(c, t) IN
    IF p.raised # None THEN [c |-> p.c, ret |-> None, raised |-> p.raised, evicted |-> None]
    ELSE IF key \in DOMAIN p.c._cache
      THEN [c |-> [p.c EXCEPT !._access_times = TouchOnGet(p.c._access_times, key, t)],
            ret |-> p.c._cache[key], raised |-> None, evicted |-> None]
      ELSE [c |-> p.c, ret |-> None, raised |-> None, evicted |-> None]

\* A capacity test that lets the cache grow one entry past max_size.
AtCapacity_Strict(c) == Cardinality(DOMAIN c._cache) > c.max_size

\* lines 309 and 346
AtCapacity(c) == Cardinality(DOMAIN c._cache) >= c.max_size

\* An eviction that removes the first inserted key, whatever was read since.
OldestKey_FirstInserted(items) == items[1].key

\* lines 311 and 348: min(self._access_times.keys(), key=self._access_times.get)
OldestKey(items) ==
    items[CHOOSE i \in DOMAIN items :
            \A j \in DOMAIN items :
                items[i].t <= items[j].t /\ (items[j].t = items[i].t => i <= j)].key

\* set, lines 307-316 and 344-353
CacheSet(c, key, value, t) ==
    LET p == EvictExpired(c, t)
        insert(d, ev) ==
            [c |-> [d EXCEPT !._cache = MapPut(d._cache, key, value),
                             !._access_times = DictPut(d._access_times, key, t)],
             ret |-> None, raised |-> None, evicted |-> ev]
        fail(d, exc) == [c |-> d, ret |-> None, raised |-> exc, evicted |-> None]
    IN
    IF p.raised # None THEN fail(p.c, p.raised)
    ELSE IF AtCapacity(p.c)
      THEN IF p.c._access_times = <<>> THEN fail(p.c, "ValueError")
           ELSE LET oldest_key == OldestKey(p.c._access_times) IN
                IF oldest_key \notin DOMAIN p.c._cache THEN fail(p.c, "KeyError")
                ELSE insert([p.c EXCEPT !._cache = MapDel(p.c._cache, oldest_key),
                                        !._access_times = DictDel(p.c._access_times, oldest_key)],
                            oldest_key)
      ELSE insert(p.c, None)

(***************************************************************************)
(* ResponseCache, lines 321-353, method by method as the class spells them *)
(* out, over the same record of fields.                                    *)
(***************************************************************************)
\* An expiry test of ResponseCache that fires when exactly ttl_seconds have passed.
ResponseCache_is_expired_AtTtl(c, key, t) ==
    t - DictGet(c._access_times, key) >= c.ttl_seconds

\* _is_expired, lines 328-329
ResponseCache_is_expired(c, key, t) ==
    t - DictGet(c._access_times, key) > c.ttl_seconds

\* _evict_expired, lines 331-335
ResponseCache_evict_expired(c, t) ==
    LET expired_keys == { k \in DictKeys(c._access_times) : ResponseCache_is_expired(c, k, t) }
        present == expired_keys \cap DOMAIN c._cache
    IN  [c |-> [c EXCEPT !._cache = [x \in DOMAIN c._cache \ expired_keys |-> c._cache[x]],
                         !._access_times = SelectSeq(c._access_times,
                                                     LAMBDA e : e.key \notin present)],
         raised |-> IF present = expired_keys THEN None ELSE "KeyError"]

\* get, lines 337-342
ResponseCache_get(c, key, t) ==
    LET p == ResponseCache_evict_expired(c, t) IN
    IF p.raised # None THEN [c |-> p.c, ret |-> None, raised |-> p.raised]
    ELSE IF key \in DOMAIN p.c._cache
      THEN [c |-> [p.c EXCEPT !._access_times = DictPut(p.c._access_times, key, t)],
            ret |-> p.c._cache[key], raised |-> None]
      ELSE [c |-> p.c, ret |-> None, raised |-> None]

\* set, lines 344-353
ResponseCache_set(c, key, value, t) ==
    LET p == ResponseCache_evict_expired(c, t)
        store(d) ==
            [c |-> [d EXCEPT !._cache = MapPut(d._cache, key, value),
                             !._access_times = DictPut(d._access_times, key, t)],
             raised |-> None]
    IN
    IF p.raised # None THEN [c |-> p.c, raised |-> p.raised]
    ELSE IF Cardinality(DOMAIN p.c._cache) >= p.c.max_size
      THEN IF p.c._access_times = <<>> THEN [c |-> p.c, raised |-> "ValueError"]
           ELSE LET oldest_key == OldestKey(p.c._access_times) IN
                IF oldest_key \notin DOMAIN p.c._cache THEN [c |-> p.c, raised |-> "KeyError"]
                ELSE store([p.c EXCEPT !._cache = MapDel(p.c._cache, oldest_key),
                                       !._access_times = DictDel(p.c._access_times, oldest_key)])
      ELSE store(p.c)

\* health and get_metrics, lines 1094 and 1118 (1100, 1124 for the response
\* cache), and Metrics.get_stats, line 101: len(..._cache), no purge before
ReportedSize(c) == Cardinality(DOMAIN c._cache)

(***************************************************************************)
(* One caller driving one instance.                                        *)
(*                                                                         *)
(* hist[key] is what the caller knows of a key from the calls it made:     *)
(*   Unknown                       never set, or removed to make room      *)
(*   Gone                          more than ttl_seconds have passed since *)
(*                                 its last set and its last get hit       *)
(*   Known(t, v, touch)            time and value of its last set, time of *)
(*                                 its last set or get hit                 *)
(***************************************************************************)
Unknown == [state |-> "none", t |-> -1, v |-> None, touch |-> -1]
Gone == [state |-> "gone", t |-> -1, v |-> None, touch |-> -1]
Known(t, v, touch) == [state |-> "live", t |-> t, v |-> v, touch |-> touch]

NoCall == [op |-> "none", key |-> None, ret |-> None, raised |-> None,
           evicted |-> None, known |-> Unknown]

NoEvict == [key |-> None, touch |-> -1, minTouch |-> -1]

InitCache ==
    /\ \E m \in Capacities : cache = NewCache(m, Ttl)
    /\ clock = 0
    /\ lastCall = NoCall
    /\ hist = [k \in Keys |-> Unknown]
    /\ inserted = {}
    /\ fresh = TRUE
    /\ lastEvict = NoEvict

Size(c) == Cardinality(DOMAIN c._cache)

MinOf(S) == CHOOSE x \in S : \A y \in S : x <= y

Live(h) == h.state = "live"

\* hist at time t: a key whose last touch is more than ttl_seconds back is Gone.
Aged(h, t) ==
    [k \in Keys |-> IF Live(h[k]) /\ t - h[k].touch > cache.ttl_seconds THEN Gone ELSE h[k]]

\* The history that matters while every set was of a new key and nothing expired.
Scenario(ok, keys, ev) ==
    /\ fresh' = ok
    /\ inserted' = IF ok THEN keys ELSE {}
    /\ lastEvict' = IF ok THEN ev ELSE NoEvict

Get(key) ==
    LET r == CacheGet(cache, key, clock) IN
    /\ UNCHANGED notCache
    /\ cache' = r.c
    /\ lastCall' = [op |-> "get", key |-> key, ret |-> r.ret, raised |-> r.raised,
                    evicted |-> None, known |-> hist[key]]
    /\ hist' = IF r.ret # None /\ Live(hist[key])
                 THEN [hist EXCEPT ![key].touch = clock] ELSE hist
    /\ Scenario(fresh /\ \A k \in Keys : hist[k] # Gone, inserted, lastEvict)
    /\ UNCHANGED clock

Set(key, value) ==
    LET r == CacheSet(cache, key, value, clock)
        live == { k \in Keys : Live(hist[k]) }
    IN
    /\ UNCHANGED notCache
    /\ cache' = r.c
    /\ lastCall' = [op |-> "set", key |-> key, ret |-> None, raised |-> r.raised,
                    evicted |-> r.evicted, known |-> hist[key]]
    /\ hist' = IF r.raised # None THEN hist
               ELSE [k \in Keys |->
                       IF k = key THEN Known(clock, value, clock)
                       ELSE IF k = r.evicted THEN Unknown ELSE hist[k]]
    /\ Scenario(fresh /\ key \notin inserted /\ r.raised = None
                      /\ \A k \in Keys : hist[k] # Gone,
                inserted \cup {key},
                IF r.evicted = None THEN lastEvict
                ELSE [key |-> r.evicted,
                      touch |-> IF Live(hist[r.evicted]) THEN hist[r.evicted].touch ELSE -1,
                      minTouch |-> MinOf({ hist[k].touch : k \in live })])
    /\ UNCHANGED clock

Advance ==
    /\ UNCHANGED notCache
    /\ clock < MaxClock
    /\ clock' = clock + 1
    /\ hist' = Aged(hist, clock + 1)
    /\ lastCall' = NoCall
    /\ UNCHANGED <<cache, inserted, fresh, lastEvict>>

NextCache ==
    \/ \E k \in Keys : Get(k)
    \/ \E k \in Keys, v \in Values : Set(k, v)
    \/ Advance

(***************************************************************************)
(* Request threads on the shared instance.  app.run serves each request in *)
(* its own thread and no lock guards github_cache or response_cache, so    *)
(* the statements of two calls interleave.  A step below is one statement  *)
(* of get, set or _evict_expired; the list comprehension of line 295 and   *)
(* the min() of line 311 are taken as one step each.                       *)
(***************************************************************************)
Threads == {"t1", "t2"}
ThreadKeys == {"k1", "k2"}

IdleThread == [pc |-> "idle", op |-> None, key |-> None, value |-> None,
               expired_keys |-> <<>>, oldest_key |-> None, raised |-> None,
               ret |-> None, calls |-> 0]

ThreadsIdle == threads = [t \in Threads |-> IdleThread]

InitThreads ==
    /\ \E m \in Capacities \ {0} : cache = NewCache(m, Ttl)
    /\ clock = 0
    /\ threads = [t \in Threads |-> IdleThread]

\* line 295: the expired keys, in dict order
ExpiredKeys(c, t) ==
    LET sel == SelectSeq(c._access_times, LAMBDA e : IsExpired(c, e.key, t))
    IN  [i \in DOMAIN sel |-> sel[i].key]

At(t, pc0) == threads[t].pc = pc0
Goto(t, pc1) == threads' = [threads EXCEPT ![t].pc = pc1]
\* the call leaves by an exception
Raise(t, exc) == threads' = [threads EXCEPT ![t].pc = "idle", ![t].raised = exc]
\* the call returns
Return(t, value) == threads' = [threads EXCEPT ![t].pc = "idle", ![t].ret = value]

\* a request thread enters get(key) or set(key, value)
Call(t, op, key, value) ==
    /\ UNCHANGED notThreads
    /\ At(t, "idle")
    /\ threads[t].calls < MaxCalls
    /\ threads[t].raised = None
    /\ threads' = [threads EXCEPT ![t] = [@ EXCEPT !.pc = "scan", !.op = op, !.key = key,
                                           !.value = value, !.ret = None,
                                           !.calls = @ + 1]]
    /\ UNCHANGED <<cache, clock>>

\* line 295: expired_keys = [key for key in self._access_times.keys() if self._is_expired(key)]
Scan(t) ==
    /\ UNCHANGED notThreads
    /\ At(t, "scan")
    /\ threads' = [threads EXCEPT
                     ![t].expired_keys = ExpiredKeys(cache, clock),
                     ![t].pc = "del_cache"]
    /\ UNCHANGED <<cache, clock>>

\* lines 296-297: for key in expired_keys: del self._cache[key]
PurgeCache(t) ==
    /\ UNCHANGED notThreads
    /\ At(t, "del_cache")
    /\ IF threads[t].expired_keys = <<>>
         THEN /\ Goto(t, IF threads[t].op = "get" THEN "g_check" ELSE "s_check")
              /\ UNCHANGED cache
         ELSE LET key == Head(threads[t].expired_keys) IN
              IF key \in DOMAIN cache._cache
                THEN /\ cache' = [cache EXCEPT !._cache = MapDel(@, key)]
                     /\ Goto(t, "del_times")
                ELSE /\ Raise(t, "KeyError")
                     /\ UNCHANGED cache
    /\ UNCHANGED clock

\* line 298: del self._access_times[key]
PurgeTimes(t) ==
    /\ UNCHANGED notThreads
    /\ At(t, "del_times")
    /\ LET key == Head(threads[t].expired_keys) IN
       IF key \in DictKeys(cache._access_times)
         THEN /\ cache' = [cache EXCEPT !._access_times = DictDel(@, key)]
              /\ threads' = [threads EXCEPT ![t].expired_keys = Tail(@),
                                            ![t].pc = "del_cache"]
         ELSE /\ Raise(t, "KeyError")
              /\ UNCHANGED cache
    /\ UNCHANGED clock

\* lines 302, 305: if key in self._cache ... return None
GetCheck(t) ==
    /\ UNCHANGED notThreads
    /\ At(t, "g_check")
    /\ IF threads[t].key \in DOMAIN cache._cache
         THEN Goto(t, "g_touch")
         ELSE Return(t, None)
    /\ UNCHANGED <<cache, clock>>

\* line 303: self._access_times[key] = time.time()
GetTouch(t) ==
    /\ UNCHANGED notThreads
    /\ At(t, "g_touch")
    /\ cache' = [cache EXCEPT !._access_times = DictPut(@, threads[t].key, clock)]
    /\ Goto(t, "g_return")
    /\ UNCHANGED clock

\* line 304: return self._cache[key]
GetReturn(t) ==
    /\ UNCHANGED notThreads
    /\ At(t, "g_return")
    /\ IF threads[t].key \in DOMAIN cache._cache
         THEN Return(t, cache._cache[threads[t].key])
         ELSE Raise(t, "KeyError")
    /\ UNCHANGED <<cache, clock>>

\* line 309: if len(self._cache) >= self.max_size
SetCheck(t) ==
    /\ UNCHANGED notThreads
    /\ At(t, "s_check")
    /\ Goto(t, IF AtCapacity(cache) THEN "s_min" ELSE "s_put_cache")
    /\ UNCHANGED <<cache, clock>>

\* line 311: oldest_key = min(...)
SetMin(t) ==
    /\ UNCHANGED notThreads
    /\ At(t, "s_min")
    /\ IF cache._access_times = <<>>
         THEN Raise(t, "ValueError")
         ELSE threads' = [threads EXCEPT ![t].oldest_key = OldestKey(cache._access_times),
                                         ![t].pc = "s_del_cache"]
    /\ UNCHANGED <<cache, clock>>

\* line 312: del self._cache[oldest_key]
SetDelCache(t) ==
    /\ UNCHANGED notThreads
    /\ At(t, "s_del_cache")
    /\ IF threads[t].oldest_key \in DOMAIN cache._cache
         THEN /\ cache' = [cache EXCEPT !._cache = MapDel(@, threads[t].oldest_key)]
              /\ Goto(t, "s_del_times")
         ELSE /\ Raise(t, "KeyError")
              /\ UNCHANGED cache
    /\ UNCHANGED clock

\* line 313: del self._access_times[oldest_key]
SetDelTimes(t) ==
    /\ UNCHANGED notThreads
    /\ At(t, "s_del_times")
    /\ IF threads[t].oldest_key \in DictKeys(cache._access_times)
         THEN /\ cache' = [cache EXCEPT !._access_times = DictDel(@, threads[t].oldest_key)]
              /\ Goto(t, "s_put_cache")
         ELSE /\ Raise(t, "KeyError")
              /\ UNCHANGED cache
    /\ UNCHANGED clock

\* line 315: self._cache[key] = value
SetPutCache(t) ==
    /\ UNCHANGED notThreads
    /\ At(t, "s_put_cache")
    /\ cache' = [cache EXCEPT !._cache = MapPut(@, threads[t].key, threads[t].value)]
    /\ Goto(t, "s_put_times")
    /\ UNCHANGED clock

\* line 316: self._access_times[key] = time.time()
SetPutTimes(t) ==
    /\ UNCHANGED notThreads
    /\ At(t, "s_put_times")
    /\ cache' = [cache EXCEPT !._access_times = DictPut(@, threads[t].key, clock)]
    /\ Return(t, None)
    /\ UNCHANGED clock

\* time passes
ThreadsAdvance ==
    /\ UNCHANGED notThreads
    /\ clock < MaxClock
    /\ clock' = clock + 1
    /\ UNCHANGED <<cache, threads>>

NextThreads ==
    \/ \E t \in Threads, k \in ThreadKeys : Call(t, "get", k, None)
    \/ \E t \in Threads, k \in ThreadKeys : Call(t, "set", k, "v1")
    \/ \E t \in Threads : Scan(t)
    \/ \E t \in Threads : PurgeCache(t)
    \/ \E t \in Threads : PurgeTimes(t)
    \/ \E t \in Threads : GetCheck(t)
    \/ \E t \in Threads : GetTouch(t)
    \/ \E t \in Threads : GetReturn(t)
    \/ \E t \in Threads : SetCheck(t)
    \/ \E t \in Threads : SetMin(t)
    \/ \E t \in Threads : SetDelCache(t)
    \/ \E t \in Threads : SetDelTimes(t)
    \/ \E t \in Threads : SetPutCache(t)
    \/ \E t \in Threads : SetPutTimes(t)
    \/ ThreadsAdvance

(***************************************************************************)
(* sanitize_code, lines 113-137.  A string is the sequence of its          *)
(* characters.  blocked_patterns holds the patterns of line 115-122 that   *)
(* can occur in the texts below.                                           *)
(***************************************************************************)
blocked_patterns == << <<"a", "i", ":">>, <<"s", "u", "d", "o">> >>

NewLine == "\n"

\* str.lower() on the characters that occur
lower_char(ch) ==
    CASE ch = "A" -> "a"
      [] ch = "I" -> "i"
      [] ch = "S" -> "s"
      [] OTHER -> ch

\* A lower() that leaves the text as it is.
lower_Identity(str) == str

lower(str) == [i \in DOMAIN str |-> lower_char(str[i])]

\* str.strip(): leading and trailing whitespace removed
strip(str) ==
    LET inked == { i \in DOMAIN str : str[i] # " " } IN
    IF inked = {} THEN <<>>
    ELSE SubSeq(str, CHOOSE i \in inked : \A j \in inked : i <= j,
                     CHOOSE i \in inked : \A j \in inked : i >= j)

startswith(str, prefix) ==
    Len(prefix) <= Len(str) /\ SubSeq(str, 1, Len(prefix)) = prefix

\* prefix in str
contains(str, sub) ==
    \E i \in 1..(Len(str) - Len(sub) + 1) : SubSeq(str, i, i + Len(sub) - 1) = sub

\* str.splitlines(): the lines of a text, without their terminators; a final
\* terminator opens no further line
RECURSIVE splitlines_from(_, _, _)
splitlines_from(str, cur, acc) ==
    IF str = <<>> THEN (IF cur = <<>> THEN acc ELSE Append(acc, cur))
    ELSE IF Head(str) = NewLine THEN splitlines_from(Tail(str), <<>>, Append(acc, cur))
    ELSE splitlines_from(Tail(str), Append(cur, Head(str)), acc)

splitlines(str) == splitlines_from(str, <<>>, <<>>)

\* "\n".join(out)
RECURSIVE join(_)
join(out) ==
    IF out = <<>> THEN <<>>
    ELSE IF Len(out) = 1 THEN out[1]
    ELSE out[1] \o <<NewLine>> \o join(Tail(out))

\* lines 127-135: the line is dropped
dropped(line) ==
    LET l == strip(lower(line)) IN
    \/ \E i \in DOMAIN blocked_patterns : startswith(l, blocked_patterns[i])
    \/ \E i \in DOMAIN blocked_patterns : contains(l, blocked_patterns[i])
    \/ startswith(l, <<"/", "/">>) \/ startswith(l, <<"#">>)
    \/ startswith(l, <<"/", "*">>) \/ startswith(l, <<"*">>)

\* the list out at line 137, and the string returned
sanitize_code(text) ==
    LET out == SelectSeq(splitlines(text), LAMBDA line : ~dropped(line)) IN
    [out |-> out, text |-> join(out)]

\* The lines a source text is made of.
SourceLines ==
    { <<>>,                                 \* an empty line
      <<"x">>,
      <<" ", "x", " ">>,
      <<"a", "i", ":">>,                    \* a blocked pattern
      <<" ", "A", "I", ":", "x">>,          \* in capitals, indented
      <<"x", " ", "S", "u", "d", "o">>,     \* inside the line
      <<"a", " ", "i", ":">>,               \* not a pattern
      <<"#", "x">>,
      <<" ", "/", "/", "x">>,
      <<"/", "*", "x">>,
      <<"*", "x">>,
      <<"x", "#">> }

NotRun == [out |-> <<>>, text |-> <<"?">>]

SanitizeIdle == source = <<>> /\ sanitized = NotRun

\* a text of up to MaxSourceLines lines, the last one with or without its terminator
InitSanitize ==
    /\ \E n \in 0..MaxSourceLines : \E ls \in [1..n -> SourceLines] : \E nl \in BOOLEAN :
          source = join(ls) \o (IF nl THEN <<NewLine>> ELSE <<>>)
    /\ sanitized = NotRun

Sanitize ==
    /\ UNCHANGED notSanitize
    /\ sanitized = NotRun
    /\ sanitized' = sanitize_code(source)
    /\ UNCHANGED source

NextSanitize == Sanitize

(***************************************************************************)
(* The service: Metrics (lines 68-105), fetch_code (lines 493-534) and the *)
(* review handler (lines 802-907) over the two global caches.              *)
(***************************************************************************)
github_cache_max_size == 100
github_cache_ttl_seconds == 3600
response_cache_max_size == 200
response_cache_ttl_seconds == 7200
response_times_kept == 1000

\* Metrics.__init__, lines 69-73
NewMetrics ==
    [requests_total |-> 0, requests_success |-> 0, requests_error |-> 0,
     response_times |-> <<>>]

\* A record_request that counts only the successful calls in requests_total.
record_request_SuccessOnly(m, success, response_time) ==
    [m EXCEPT !.requests_total = IF success THEN @ + 1 ELSE @,
              !.requests_success = IF success THEN @ + 1 ELSE @,
              !.requests_error = IF success THEN @ ELSE @ + 1]

\* Metrics.record_request, lines 76-87
record_request(m, success, response_time) ==
    LET counted == [m EXCEPT !.requests_total = @ + 1,
                             !.requests_success = IF success THEN @ + 1 ELSE @,
                             !.requests_error = IF success THEN @ ELSE @ + 1]
        times == Append(m.response_times, response_time)
    IN  IF response_time > 0
          THEN [counted EXCEPT !.response_times =
                   IF Len(times) > response_times_kept
                     THEN SubSeq(times, Len(times) - response_times_kept + 1, Len(times))
                     ELSE times]
          ELSE counted

\* What a file or a code field holds, and the text behind each name.
Contents == {"", "safe", "inject"}

TextOf(content) ==
    CASE content = "safe" -> <<"x">>
      [] content = "inject" -> <<"x", NewLine, "a", "i", ":">>
      [] OTHER -> <<>>

\* Python truth of a string or None
Truthy(str) == str # None /\ str # ""

\* The URLs of a request: u1 and u2 are blob file URLs, bad matches no pattern.
BlobUrls == {"u1", "u2"}

\* cache_key of line 499
KeyOf(url) == IF url = "u1" THEN "k1" ELSE "k2"

\* What the GET of line 507 meets.
Fetches ==
    { [kind |-> "ok", data |-> d] : d \in {"", "safe"} }
      \cup { [kind |-> k, data |-> ""] : k \in {"status", "too_large", "network"} }

\* A fetch_code that remembers a non-200 answer as an empty file.
fetch_code_CachesFailure(c, url, net, t) ==
    LET after_get(cached) ==
            IF Truthy(cached.ret)
              THEN [c |-> cached.c, ret |-> cached.ret, raised |-> None, http |-> FALSE]
            ELSE IF net.kind = "status"
              THEN [c |-> CacheSet(cached.c, KeyOf(url), "", t).c, ret |-> None,
                    raised |-> "GitHub fetch failed", http |-> TRUE]
            ELSE IF net.kind = "too_large"
              THEN [c |-> cached.c, ret |-> None, raised |-> "File too large", http |-> TRUE]
            ELSE IF net.kind = "network"
              THEN [c |-> cached.c, ret |-> None, raised |-> "Network error fetching code",
                    http |-> TRUE]
            ELSE [c |-> CacheSet(cached.c, KeyOf(url), net.data, t).c, ret |-> net.data,
                  raised |-> None, http |-> TRUE]
    IN  IF url \notin BlobUrls
          THEN [c |-> c, ret |-> None, raised |-> "Unsupported GitHub URL", http |-> FALSE]
          ELSE CHOOSE r \in { after_get(cached) : cached \in {CacheGet(c, KeyOf(url), t)} } :
                  TRUE

\* fetch_code, lines 493-534: the cache after the call, the string returned or
\* the ValueError raised, and whether a GET was sent.
fetch_code(c, url, net, t) ==
    LET after_get(cached) ==
            IF cached.raised # None
              THEN [c |-> cached.c, ret |-> None, raised |-> cached.raised, http |-> FALSE]
            ELSE IF Truthy(cached.ret)
              THEN [c |-> cached.c, ret |-> cached.ret, raised |-> None, http |-> FALSE]
            ELSE IF net.kind = "status"
              THEN [c |-> cached.c, ret |-> None, raised |-> "GitHub fetch failed",
                    http |-> TRUE]
            ELSE IF net.kind = "too_large"
              THEN [c |-> cached.c, ret |-> None, raised |-> "File too large", http |-> TRUE]
            ELSE IF net.kind = "network"
              THEN [c |-> cached.c, ret |-> None, raised |-> "Network error fetching code",
                    http |-> TRUE]
            ELSE CHOOSE r \in { [c |-> stored.c,
                                 ret |-> IF stored.raised = None THEN net.data ELSE None,
                                 raised |-> stored.raised, http |-> TRUE] :
                                stored \in {CacheSet(cached.c, KeyOf(url), net.data, t)} } : TRUE
    IN  IF url \notin BlobUrls
          THEN [c |-> c, ret |-> None, raised |-> "Unsupported GitHub URL", http |-> FALSE]
          ELSE CHOOSE r \in { after_get(cached) : cached \in {CacheGet(c, KeyOf(url), t)} } :
                  TRUE

\* The JSON bodies posted.  urls is absent, a list or a string; an array body
\* is JSON that is not an object.
NoUrls == [kind |-> "absent", items |-> <<>>]
UrlList(items) == [kind |-> "list", items |-> items]
UrlString(url) == [kind |-> "str", items |-> <<url>>]

JsonObject(code, urls, url, mode) ==
    [shape |-> "object", code |-> code, urls |-> urls, url |-> url, mode |-> mode]

Bodies ==
    { [shape |-> "array", code |-> None, urls |-> NoUrls, url |-> None, mode |-> None],
      JsonObject(None, NoUrls, None, None),
      JsonObject("", UrlList(<<>>), None, "bugs"),
      JsonObject(None, NoUrls, "", "nope"),
      JsonObject("safe", NoUrls, None, None),
      JsonObject("inject", NoUrls, None, "security"),
      JsonObject("safe", NoUrls, None, "nope"),
      JsonObject("safe", UrlList(<<"u1", "u2">>), None, "bugs"),
      JsonObject(None, UrlList(<<"u1">>), None, "bugs"),
      JsonObject(None, UrlList(<<"u1", "u2">>), None, "security"),
      JsonObject(None, UrlList(<<"u1", "bad">>), None, None),
      JsonObject(None, UrlList(<<"">>), None, "bugs"),
      JsonObject(None, UrlString("u1"), None, "bugs"),
      JsonObject(None, UrlString("u1"), None, "nope"),
      JsonObject(None, NoUrls, "u1", None),
      JsonObject(None, NoUrls, "u2", "nope") }

\* truth of the urls field, lines 818 and 871
UrlsGiven(urls) ==
    \/ urls.kind = "list" /\ urls.items # <<>>
    \/ urls.kind = "str" /\ urls.items[1] # ""

Modes == {"bugs", "improvements", "refactor", "explain", "performance", "security"}

\* the loop of lines 849-864: all_code, the URLs given to fetch_code, the GETs
\* sent and the exception that ended the loop
RECURSIVE FetchAll(_, _, _, _, _)
FetchAll(items, nets, c, t, acc) ==
    IF items = <<>> THEN [acc EXCEPT !.c = c]
    ELSE IF Head(items) = "" THEN FetchAll(Tail(items), Tail(nets), c, t, acc)
    ELSE LET next(got) ==
                 IF got.raised # None
                   THEN [acc EXCEPT !.c = got.c,
                                    !.fetched = Append(@, Head(items)),
                                    !.http = IF got.http THEN @ + 1 ELSE @,
                                    !.raised = got.raised]
                   ELSE FetchAll(Tail(items), Tail(nets), got.c, t,
                                 [acc EXCEPT !.c = got.c,
                                             !.fetched = Append(@, Head(items)),
                                             !.http = IF got.http THEN @ + 1 ELSE @,
                                             !.all_code =
                                     Append(@, sanitize_code(TextOf(got.ret)).text)])
         IN  CHOOSE r \in { next(got) : got \in {fetch_code(c, Head(items), Head(nets), t)} } :
                TRUE

\* ResponseCache.generate_key, lines 355-356
generate_key(prompt_hash, mode, file_count) == <<prompt_hash, mode, file_count>>

NoKey == <<>>

\* A handler that stores the response under the key it computed.
ResponseCacheStep_Stores(rc, cache_key, t) == CacheSet(rc, cache_key, "response", t).c

\* lines 874-879: the key is computed and the size of the cache is logged; the
\* response cache is neither read nor written
ResponseCacheStep(rc, cache_key, t) == rc

\* What the handler answers and what it did on the way.
Reply(status, message, stream, calls) ==
    [status |-> status, message |-> message, stream |-> stream, calls |-> calls,
     fetched |-> <<>>, http |-> 0, cache_key |-> NoKey]

\* review, lines 802-907
review(body, nets, response_time, m, c, rc, t) ==
    LET mode == IF body.mode = None THEN "bugs" ELSE body.mode
        legacy == ~UrlsGiven(body.urls) /\ ~Truthy(body.code) /\ Truthy(body.url)
        urls == IF legacy THEN UrlList(<<body.url>>) ELSE body.urls
        file_count == IF UrlsGiven(urls) THEN Len(urls.items) ELSE 1
        failed(message) ==
            [metrics |-> record_request(m, FALSE, response_time), cache |-> c,
             response_cache |-> rc, reply |-> Reply(400, message, FALSE, 1)]
        done(got, status, message, stream, key, cached) ==
            [metrics |-> record_request(m, stream, response_time), cache |-> got.c,
             response_cache |-> cached,
             reply |-> [Reply(status, message, stream, 1) EXCEPT !.fetched = got.fetched,
                                                               !.http = got.http,
                                                               !.cache_key = key]]
        \* lines 866-907, all_code collected or the exception caught
        answer(got) ==
            IF got.raised # None THEN done(got, 400, got.raised, FALSE, NoKey, rc)
            ELSE IF got.all_code = <<>>
              THEN done(got, 400, "No valid code provided", FALSE, NoKey, rc)
            ELSE done(got, 200, "stream", TRUE, generate_key(got.all_code, mode, file_count),
                      ResponseCacheStep(rc, generate_key(got.all_code, mode, file_count), t))
        \* lines 835-864
        collected ==
            IF Truthy(body.code)
              THEN [c |-> c, all_code |-> <<sanitize_code(TextOf(body.code)).text>>,
                    fetched |-> <<>>, http |-> 0, raised |-> None]
              ELSE FetchAll(urls.items, nets, c, t,
                            [c |-> c, all_code |-> <<>>, fetched |-> <<>>, http |-> 0,
                             raised |-> None])
    IN  IF body.shape # "object"
          THEN [metrics |-> m, cache |-> c, response_cache |-> rc,
                reply |-> Reply(500, "Unexpected server error", FALSE, 0)]
        ELSE IF ~UrlsGiven(body.urls) /\ ~Truthy(body.code) /\ ~Truthy(body.url)
          THEN failed("Missing 'code' or 'urls' or 'url'")
        ELSE IF mode \notin Modes THEN failed("Invalid mode")
        ELSE CHOOSE r \in { answer(got) : got \in {collected} } : TRUE

NoRecords == [calls |-> 0, successes |-> 0]

Recorded(log, success) ==
    [calls |-> log.calls + 1, successes |-> log.successes + (IF success THEN 1 ELSE 0)]

NoFetch == [url |-> None, ret |-> None, raised |-> None, http |-> FALSE, held |-> None,
            before |-> <<>>]

NoRequest ==
    [body |-> JsonObject(None, NoUrls, None, None), reply |-> Reply(0, "", FALSE, 0),
     mutated |-> FALSE, repeated |-> FALSE]

ServiceIdle ==
    /\ metrics = NewMetrics
    /\ recorded = NoRecords
    /\ response_cache = NewCache(response_cache_max_size, response_cache_ttl_seconds)
    /\ request = NoRequest
    /\ served = {}
    /\ handled = 0
    /\ fetch = NoFetch

\* the module's globals after import, lines 105, 319 and 359
InitService ==
    /\ ServiceIdle
    /\ cache = NewCache(github_cache_max_size, github_cache_ttl_seconds)
    /\ clock = 0

\* The URLs the handler gives to fetch_code unless an earlier one fails.
Wanted(body) ==
    IF Truthy(body.code) THEN <<>>
    ELSE IF ~UrlsGiven(body.urls) /\ Truthy(body.url) THEN <<body.url>>
    ELSE body.urls.items

\* One POST /api/review, handled from its first line to its return; the
\* request takes some time (line 805 to the call of record_request).
Review(body, nets) ==
    /\ UNCHANGED notService
    /\ handled < MaxRequests
    /\ \E r \in {review(body, nets, 1, metrics, cache, response_cache, clock)} :
       /\ metrics' = r.metrics
       /\ cache' = r.cache
       /\ response_cache' = r.response_cache
       /\ recorded' = IF r.reply.calls = 1 THEN Recorded(recorded, r.reply.stream)
                                            ELSE recorded
       /\ request' = [body |-> body, reply |-> r.reply,
                      mutated |-> r.cache # cache \/ r.response_cache # response_cache,
                      repeated |-> r.reply.cache_key \in served]
       /\ served' = IF r.reply.stream THEN served \cup {r.reply.cache_key} ELSE served
    /\ handled' = handled + 1
    /\ UNCHANGED clock

NextService ==
    \E body \in Bodies : \E nets \in [1..Len(Wanted(body)) -> Fetches] : Review(body, nets)

\* Metrics.record_request called by any caller (lines 822, 828, 867, 901, 906
\* and analyze_repository) with the time the request took.
RecordRequest(success, response_time) ==
    /\ UNCHANGED notService
    /\ recorded.calls < MaxRecords
    /\ metrics' = record_request(metrics, success, response_time)
    /\ recorded' = Recorded(recorded, success)
    /\ UNCHANGED <<cache, clock, response_cache, request, served, handled>>

NextMetrics == \E success \in BOOLEAN : \E rt \in {0, 1, 2} : RecordRequest(success, rt)

(***************************************************************************)
(* fetch_code called on the global github_cache, time passing between the  *)
(* calls in steps of a little more than half of its ttl_seconds.           *)
(***************************************************************************)
FetchStep == github_cache_ttl_seconds \div 2 + 1

\* the content stored for the URL's key and not expired at time t, or None
Held(c, url, t) ==
    IF url \in BlobUrls /\ KeyOf(url) \in DOMAIN c._cache /\ ~IsExpired(c, KeyOf(url), t)
      THEN c._cache[KeyOf(url)] ELSE None

Fetch(url, net) ==
    /\ UNCHANGED notFetch
    /\ \E r \in {fetch_code(cache, url, net, clock)} :
          /\ cache' = r.c
          /\ fetch' = [url |-> url, ret |-> r.ret, raised |-> r.raised, http |-> r.http,
                       held |-> Held(cache, url, clock), before |-> cache._cache]
    /\ UNCHANGED clock

FetchAdvance ==
    /\ UNCHANGED notFetch
    /\ clock < MaxClock * FetchStep
    /\ clock' = clock + FetchStep
    /\ UNCHANGED <<cache, fetch>>

NextFetch ==
    \/ \E url \in BlobUrls \cup {"bad"} : \E net \in Fetches : Fetch(url, net)
    \/ FetchAdvance

(***************************************************************************)
(* A GitHubCache (cache) and a ResponseCache (response_cache) constructed  *)
(* with the same max_size and ttl_seconds and given the same calls at the  *)
(* same times.                                                             *)
(***************************************************************************)
InitTwins ==
    /\ \E m \in Capacities :
          /\ cache = NewCache(m, Ttl)
          /\ response_cache = NewCache(m, Ttl)
    /\ clock = 0

TwinGet(key) ==
    /\ UNCHANGED notTwins
    /\ cache' = CacheGet(cache, key, clock).c
    /\ response_cache' = ResponseCache_get(response_cache, key, clock).c
    /\ UNCHANGED clock

TwinSet(key, value) ==
    /\ UNCHANGED notTwins
    /\ cache' = CacheSet(cache, key, value, clock).c
    /\ response_cache' = ResponseCache_set(response_cache, key, value, clock).c
    /\ UNCHANGED clock

TwinAdvance ==
    /\ UNCHANGED notTwins
    /\ clock < MaxClock
    /\ clock' = clock + 1
    /\ UNCHANGED <<cache, response_cache>>

NextTwins ==
    \/ \E k \in Keys : TwinGet(k)
    \/ \E k \in Keys, v \in Values : TwinSet(k, v)
    \/ TwinAdvance

(***************************************************************************)
(* Specifications.  Each one runs one part of the program and leaves the   *)
(* other parts in their initial state.                                     *)
(***************************************************************************)
CacheIdle ==
    /\ cache = NewCache(0, Ttl)
    /\ clock = 0
    /\ lastCall = NoCall
    /\ hist = [k \in Keys |-> Unknown]
    /\ inserted = {}
    /\ fresh = TRUE
    /\ lastEvict = NoEvict

\* Sessions against an upstream that can fail in every way while the connection
\* is opened and sends lines of RetryLines afterwards.
NextRelay == NextSession(RetryLines, Faults)

InitRelaySpec == InitRelay /\ CacheIdle /\ ThreadsIdle /\ SanitizeIdle /\ ServiceIdle

SpecRelay == InitRelaySpec /\ [][NextRelay]_vars

\* Sessions whose first attempt is answered 200 and that are over before the
\* first heartbeat is due (the clock stands still); upstream sends every line
\* of Lines.
NextStream ==
    \/ Begin
    \/ AttemptOk
    \/ ResumeStart
    \/ \E l \in Lines : RecvLine(l)
    \/ ResumeToken
    \/ RecvClose
    \/ \E e \in StreamFaults : RecvFault(e)
    \/ ResumeStreamError
    \/ ResumeEnd
    \/ ResumeSentinel
    \/ Close

SpecStream == InitRelaySpec /\ [][NextStream]_vars

\* Sessions that the consumer never closes: it asks for the next frame
\* whenever the generator is suspended at a yield.
Pull ==
    \/ Begin
    \/ ResumeOpenError
    \/ ResumeStart
    \/ ResumeHeartbeat
    \/ ResumeToken
    \/ ResumeStreamError
    \/ ResumeEnd
    \/ ResumeSentinel

\* requests.post (line 731, with its timeout) returns or raises
Post ==
    \/ AttemptOk
    \/ \E s \in BadStatuses : AttemptRejected(s)
    \/ \E e \in Faults : AttemptFault(e)

\* upstream sends its next line, closes the response or breaks off
Upstream ==
    \/ \E l \in RetryLines : RecvLine(l)
    \/ RecvClose
    \/ \E e \in StreamFaults : RecvFault(e)

NextPulled ==
    \/ Pull
    \/ Post
    \/ Upstream
    \/ Collect
    \/ \E d \in TickSteps : Tick(d)

\* what every step of Pull, Post and Upstream changes
progress == <<pc, attempt, Len(outcomes), Len(received), Len(events)>>

\* The consumer keeps pulling, every requests.post ends and the upstream line
\* sequence is finite.
SpecPulled ==
    /\ InitRelaySpec
    /\ [][NextPulled]_vars
    /\ WF_progress(Pull)
    /\ WF_progress(Post)
    /\ WF_progress(Upstream)

\* One caller, one cache instance, any order of get, set and clock advance.
InitCacheSpec == InitCache /\ InitRelay /\ ThreadsIdle /\ SanitizeIdle /\ ServiceIdle

SpecCache == InitCacheSpec /\ [][NextCache]_vars

\* Two request threads, one shared cache instance with max_size >= 1.
InitThreadsSpec ==
    /\ InitThreads
    /\ InitRelay
    /\ SanitizeIdle
    /\ ServiceIdle
    /\ lastCall = NoCall
    /\ hist = [k \in Keys |-> Unknown]
    /\ inserted = {}
    /\ fresh = TRUE
    /\ lastEvict = NoEvict

SpecThreads == InitThreadsSpec /\ [][NextThreads]_vars

\* sanitize_code called once on a source text.
InitSanitizeSpec ==
    /\ InitSanitize
    /\ InitRelay
    /\ CacheIdle
    /\ ThreadsIdle
    /\ ServiceIdle

SpecSanitize == InitSanitizeSpec /\ [][NextSanitize]_vars

\* The service handling requests one after the other.
InitServiceSpec ==
    /\ InitService
    /\ InitRelay
    /\ ThreadsIdle
    /\ SanitizeIdle
    /\ lastCall = NoCall
    /\ hist = [k \in Keys |-> Unknown]
    /\ inserted = {}
    /\ fresh = TRUE
    /\ lastEvict = NoEvict

SpecService == InitServiceSpec /\ [][NextService]_vars

\* One Metrics instance and its callers.
SpecMetrics == InitServiceSpec /\ [][NextMetrics]_vars

\* fetch_code and the cache of fetched files.
SpecFetch == InitServiceSpec /\ [][NextFetch]_vars

\* The two cache classes side by side.
InitTwinsSpec ==
    /\ InitTwins
    /\ InitRelay
    /\ ThreadsIdle
    /\ SanitizeIdle
    /\ metrics = NewMetrics
    /\ recorded = NoRecords
    /\ request = NoRequest
    /\ served = {}
    /\ handled = 0
    /\ fetch = NoFetch
    /\ lastCall = NoCall
    /\ hist = [k \in Keys |-> Unknown]
    /\ inserted = {}
    /\ fresh = TRUE
    /\ lastEvict = NoEvict

SpecTwins == InitTwinsSpec /\ [][NextTwins]_vars

(***************************************************************************)
(* Properties of a cache driven by one caller.                             *)
(***************************************************************************)
JustGot == lastCall.op = "get"
JustSet == lastCall.op = "set" /\ lastCall.raised = None

\* C2: a cache constructed with max_size >= 1 never holds more than max_size
\* entries, after any get, set or clock advance.
C2_SizeBounded ==
    cache.max_size >= 1 => Size(cache) <= cache.max_size

\* a set has just removed an entry of a full cache to make room
C2_Witness ==
    /\ JustSet
    /\ lastCall.evicted # None
    /\ cache.max_size = 2
    /\ Size(cache) = 2

\* C3 as stated: a get of a key last set at time t with value v and not
\* removed for room since returns v before t + ttl and None after t + ttl.
C3_ExpiryFromLastSet ==
    JustGot =>
        /\ Live(lastCall.known) =>
              /\ clock < lastCall.known.t + cache.ttl_seconds => lastCall.ret = lastCall.known.v
              /\ clock > lastCall.known.t + cache.ttl_seconds => lastCall.ret = None
        /\ lastCall.known = Gone => lastCall.ret = None

\* C3 as amended: the expiry is fixed by the most recent touch of the key, its
\* last set or its last get that returned the value (both refresh it to now +
\* ttl): a get before touch + ttl returns the last-set value, a get after
\* touch + ttl returns None.
C3_ExpiryFromLastTouch ==
    JustGot =>
        /\ Live(lastCall.known) =>
              /\ clock < lastCall.known.touch + cache.ttl_seconds => lastCall.ret = lastCall.known.v
              /\ clock > lastCall.known.touch + cache.ttl_seconds => lastCall.ret = None
        /\ lastCall.known = Gone => lastCall.ret = None

\* a get returns the value more than ttl after the key was set, a get hit in between
C3_Witness ==
    /\ JustGot
    /\ Live(lastCall.known)
    /\ clock > lastCall.known.t + cache.ttl_seconds
    /\ clock < lastCall.known.touch + cache.ttl_seconds
    /\ lastCall.ret = lastCall.known.v

\* C4: while every set was of a new key and nothing has expired, once
\* max_size + 1 keys were set exactly max_size of them are present, one was
\* removed, and the removed key's last touch (set or get hit) was no later than
\* that of any key present when it was removed.
C4_LeastRecentlyTouched ==
    (fresh /\ Cardinality(inserted) = cache.max_size + 1) =>
        /\ Size(cache) = cache.max_size
        /\ DOMAIN cache._cache \subseteq inserted
        /\ lastEvict.key \in inserted \ DOMAIN cache._cache
        /\ lastEvict.touch >= 0
        /\ lastEvict.touch = lastEvict.minTouch

\* the overflowing set, after a get hit that made the removed key differ from
\* the first one inserted
C4_Witness ==
    /\ JustSet
    /\ fresh
    /\ cache.max_size = 2
    /\ Cardinality(inserted) = 3
    /\ lastCall.evicted = lastEvict.key
    /\ cache._access_times[1].t > hist[cache._access_times[1].key].t

(***************************************************************************)
(* Properties of a cache shared by request threads.                        *)
(***************************************************************************)
Quiescent == \A t \in Threads : threads[t].pc = "idle"

\* C5: under every interleaving of the calls of two threads the entry count
\* never exceeds max_size, the value map and the timestamp map have the same
\* key set whenever no call is in progress, and no call raises.
C5_CallsAreExclusive ==
    /\ Size(cache) <= cache.max_size
    /\ Quiescent => DOMAIN cache._cache = DictKeys(cache._access_times)
    /\ \A t \in Threads : threads[t].raised = None

(***************************************************************************)
(* Properties of the relay session.                                        *)
(***************************************************************************)
EventKinds == {"start", "token", "heartbeat", "error"}

Indices(kind) == { i \in DOMAIN events : events[i].event = kind }

EndIndices == { i \in DOMAIN events : events[i].event = "end" /\ events[i].done }

NothingAfterEnd ==
    \A i \in EndIndices : \A j \in DOMAIN events : j > i => events[j].event \notin EventKinds

\* An upstream attempt returned status 200.
Opened == \E i \in DOMAIN outcomes : outcomes[i].kind = "status" /\ outcomes[i].status = 200

Rejected(i) == outcomes[i].kind = "status" /\ outcomes[i].status # 200

AllFaults == \A i \in DOMAIN outcomes : outcomes[i].kind = "fault"

Exhausted == Len(outcomes) = max_retries /\ AllFaults

\* The generator ran to its end and the consumer never closed it.
Finished == pc = "closed" /\ cancelled = "no" /\ outcomes # <<>>

TerminalError(msg) == chunk(msg, "error", TRUE)

OpenErrorMsgs ==
    {ApiErrorMsg(s) : s \in BadStatuses} \cup {ConnErrorMsg(e) : e \in Faults}

C6_NoRetryOnStatus ==
    \A i \in DOMAIN outcomes :
        Rejected(i) =>
            /\ i = Len(outcomes)
            /\ pc \in {"y_api_error", "closed"}
            /\ events = <<TerminalError(ApiErrorMsg(outcomes[i].status))>>

\* the third attempt, after two network faults, is rejected
C6_Witness ==
    /\ Len(outcomes) = 3
    /\ outcomes[1].kind = "fault" /\ outcomes[2].kind = "fault"
    /\ Rejected(3)
    /\ pc = "closed"

\* C7: while attempts fail with network faults nothing is emitted, and once an
\* attempt returns 200 the first event is Start, the generator goes on to the
\* stream, and no event reports a failed attempt: every Error in the session
\* is a non-terminal stream error.
C7_FailedAttemptsInvisible ==
    /\ pc = "attempt" => events = <<>>
    /\ Opened =>
          /\ events # <<>> /\ events[1] = chunk("", "start", FALSE)
          /\ pc \in StreamYields \cup TailYields \cup {"reading", "closed"}
          /\ \A i \in Indices("error") :
                ~events[i].done /\ events[i].content \notin OpenErrorMsgs

\* two network faults, then 200, then a relayed token
C7_Witness ==
    /\ Len(outcomes) = 3
    /\ outcomes[1].kind = "fault" /\ outcomes[2].kind = "fault"
    /\ outcomes[3].status = 200
    /\ events = <<chunk("", "start", FALSE), chunk("He", "token", FALSE)>>

\* C8: at most max_retries upstream requests are made in a session, and when
\* all max_retries raise, no attempt is pending and the session holds exactly
\* one event, the terminal error with the last attempt's exception.
C8_BoundedAttempts ==
    /\ Len(outcomes) <= max_retries
    /\ Exhausted =>
          /\ pc \in {"y_conn_error", "closed"}
          /\ events = <<TerminalError(ConnErrorMsg(outcomes[max_retries].exc))>>

\* three faults, the last one different from the first two
C8_Witness ==
    /\ Exhausted
    /\ outcomes[1].exc = "timeout" /\ outcomes[2].exc = "timeout"
    /\ outcomes[3].exc = "refused"
    /\ pc = "closed"

NumFaults == Cardinality({ i \in DOMAIN outcomes : outcomes[i].kind = "fault" })

\* C9: the wait after the failure of attempt a (1-based, a < max_retries) is
\* BackoffBaseTenths * 2^(a-1), that is 1.2 s and then 2.4 s, and there is one
\* wait per failed attempt except the final one.
C9_Backoff ==
    /\ \A a \in DOMAIN sleeps : sleeps[a] = BackoffBaseTenths * 2 ^ (a - 1)
    /\ sleeps \in {<<>>, <<12>>, <<12, 24>>}
    /\ Len(sleeps) = IF NumFaults < max_retries THEN NumFaults ELSE max_retries - 1

\* the final attempt has failed: two waits were made, none after it
C9_Witness ==
    /\ Exhausted
    /\ pc = "y_conn_error"
    /\ sleeps = <<12, 24>>

\* C10: the session holds a Start event if and only if an attempt returned 200,
\* then exactly one and as its first event; and when opening fails (a status
\* other than 200, or max_retries faults) the session holds exactly one event,
\* an Error with done=true, at the yield and after the generator has ended.
C10_StartIffOpened ==
    /\ Opened <=> Indices("start") # {}
    /\ Indices("start") \subseteq {1}
    /\ (Exhausted \/ (outcomes # <<>> /\ Rejected(Len(outcomes)))) =>
          /\ Len(events) = 1
          /\ events[1].event = "error" /\ events[1].done
          /\ events[1].content \in OpenErrorMsgs
          /\ discarded = <<>>

\* a rejected session that ran to its end
C10_Witness ==
    /\ Finished
    /\ Len(outcomes) = 1 /\ outcomes[1].status = 401
    /\ Len(events) = 1

(***************************************************************************)
(* Heartbeats.  Interval is HEARTBEAT_INTERVAL on the relay clock.         *)
(***************************************************************************)
Interval == HEARTBEAT_INTERVAL * 10

\* the frames yielded while line n was processed
LineEvents(n) == { i \in DOMAIN events : stamps[i].line = n }

HeartbeatsOf(n) == { i \in LineEvents(n) : events[i].event = "heartbeat" }

\* a heartbeat of line n comes before every other frame of line n
BeatFirst(n) == \A h \in HeartbeatsOf(n) : \A i \in LineEvents(n) : h <= i

\* when line n was delivered, every frame of one of the kinds yielded before
\* it was at least Interval old
Silence(n, kinds) ==
    \A i \in DOMAIN events :
        (events[i].event \in kinds /\ stamps[i].line < n) => arrivals[n] - stamps[i].t >= Interval

\* C11 as stated: for every line delivered, at most one Heartbeat is yielded for
\* it, and when no Token was yielded (and the session did not start) within
\* the last Interval, exactly one is, before the line's own frame.
C11_BeatOnTokenSilence ==
    \A n \in DOMAIN received :
        /\ Cardinality(HeartbeatsOf(n)) <= 1
        /\ Silence(n, {"start", "token"}) => Cardinality(HeartbeatsOf(n)) = 1 /\ BeatFirst(n)

\* C11 as amended: for every line delivered, at most one Heartbeat is yielded
\* for it, however long the silence was, and when no Heartbeat was yielded
\* (and the session did not start) within the last Interval - in particular
\* when no frame at all was - exactly one is, before the line's own frame.
C11_BeatOnBeatSilence ==
    \A n \in DOMAIN received :
        /\ Cardinality(HeartbeatsOf(n)) <= 1
        /\ Silence(n, {"start", "heartbeat"}) => Cardinality(HeartbeatsOf(n)) = 1 /\ BeatFirst(n)
        /\ Silence(n, {"start", "token", "heartbeat"}) => Cardinality(HeartbeatsOf(n)) = 1

\* a line delivered after two intervals of silence got one Heartbeat, then its Token
C11_Witness ==
    \E n \in DOMAIN received :
        /\ arrivals[n] - stamps[1].t >= 2 * Interval
        /\ Silence(n, {"start", "token", "heartbeat"})
        /\ Cardinality(HeartbeatsOf(n)) = 1
        /\ \E i \in LineEvents(n) : events[i].event = "token"

\* C12 as stated: a Heartbeat is yielded for a line only when every frame
\* yielded before (Start, Token or Heartbeat) is at least Interval old; so
\* never less than Interval after a Token.
C12_BeatOnlyAfterEventSilence ==
    \A n \in DOMAIN received :
        HeartbeatsOf(n) # {} => Silence(n, {"start", "token", "heartbeat"})

\* C12 as amended: a Heartbeat is yielded for a line only when the previous
\* Heartbeat (or, before the first one, Start) is at least Interval old: the
\* timer is restarted by a Heartbeat only, not by a Token, and a Heartbeat can
\* follow a Token by less than Interval.
C12_BeatOnlyAfterBeatSilence ==
    \A n \in DOMAIN received :
        HeartbeatsOf(n) # {} => Silence(n, {"start", "heartbeat"})

\* a second Heartbeat one interval after the first, less than Interval after a Token
C12_Witness ==
    \E n \in DOMAIN received :
        /\ HeartbeatsOf(n) # {}
        /\ \E m \in 1..(n - 1) : HeartbeatsOf(m) # {}
        /\ ~Silence(n, {"token"})

\* C13: while the generator waits for upstream in an open session, the consumer
\* has never waited more than Interval without a frame: a Heartbeat is yielded
\* even when no line is delivered.
C13_BeatsWhileSilent ==
    pc = "reading" => now - blockedSince <= Interval

(***************************************************************************)
(* Cancellation.                                                           *)
(***************************************************************************)
\* C14: when the consumer closes the generator after Start, close() returns
\* without raising and the generator yields nothing into it: no End and no
\* sentinel is attempted.
C14_SilentCancel ==
    (cancelled # "no" /\ Indices("start") # {}) => (cancelled = "clean" /\ discarded = <<>>)

(***************************************************************************)
(* Normalisation of upstream lines.                                        *)
(***************************************************************************)
\* line n has been dealt with: the generator is past its heartbeat test
Processed(n) == n < Len(received) \/ pc # "y_heartbeat"

\* a non-blank line other than [DONE] that carries no content to extract:
\* plain text, malformed JSON, JSON without choices, choices without content
Unparsed(l) ==
    \/ l.kind \in {"text", "badjson"}
    \/ /\ l.kind = "json"
       /\ \A i \in DOMAIN l.choices :
             \/ l.choices[i].shape \in {"nocontent", "nodelta"}
             \/ l.choices[i].shape = "content" /\ l.choices[i].content = ""

C16_ParseFailuresSkipped ==
    \A n \in DOMAIN received : \A i \in LineEvents(n) : events[i].event # "error"

(***************************************************************************)
(* Failure of the line source.                                             *)
(***************************************************************************)
SourceErrors ==
    { i \in Indices("error") :
        stamps[i].line = 0 /\ events[i].content \in {StreamErrorMsg(e) : e \in StreamFaults} }

\* C17: when resp.iter_lines raises, exactly one Error frame is yielded for it,
\* without done; the generator never waits for a line again; what follows the
\* Error is End with done and then the sentinel, both present once the
\* generator has run to its end.
C17_SourceErrorThenEnd ==
    /\ Cardinality(SourceErrors) <= 1
    /\ \A i \in SourceErrors :
          /\ ~events[i].done
          /\ pc \in {"y_stream_error", "y_end", "y_sentinel", "closed"}
          /\ Len(events) <= i + 2
          /\ Len(events) >= i + 1 => events[i + 1] = chunk("", "end", TRUE)
          /\ Len(events) >= i + 2 => events[i + 2] = SentinelFrame
          /\ Finished => Len(events) = i + 2

\* the line source broke after one relayed token and the session ran to its end
C17_Witness ==
    /\ Finished
    /\ Len(received) = 1
    /\ events = <<chunk("", "start", FALSE), chunk("He", "token", FALSE),
                  chunk(StreamErrorMsg("reset"), "error", FALSE),
                  chunk("", "end", TRUE), SentinelFrame>>

(***************************************************************************)
(* The normal stream.                                                      *)
(***************************************************************************)
\* the content a JSON chunk carries: its choices' contents, in order
RECURSIVE ChunkText(_)
ChunkText(choices) ==
    IF choices = <<>> THEN ""
    ELSE (IF Head(choices).shape = "content" THEN Head(choices).content ELSE "")
         \o ChunkText(Tail(choices))

\* a JSON chunk with non-empty delta content and nothing null in it
ContentChunk(l) ==
    /\ l.kind = "json"
    /\ \A i \in DOMAIN l.choices : l.choices[i].shape \in {"content", "nocontent", "nodelta"}
    /\ ChunkText(l.choices) # ""

Relayed == SelectSeq(events, LAMBDA f : f.event # "heartbeat")

\* C18: when upstream answered 200 and sent content chunks and then [DONE],
\* and the generator ran to its end, the frames other than Heartbeats are
\* Start, one Token per chunk in upstream order with the chunk's content, End
\* with done, and the sentinel: no Error, no token lost, repeated or moved.
C18_TokensInOrder ==
    LET k == Len(received) - 1 IN
    (/\ Finished /\ Opened
     /\ k >= 0 /\ received[k + 1].kind = "done"
     /\ \A n \in 1..k : ContentChunk(received[n]))
    => Relayed = <<chunk("", "start", FALSE)>>
                 \o [n \in 1..k |-> chunk(ChunkText(received[n].choices), "token", FALSE)]
                 \o <<chunk("", "end", TRUE), SentinelFrame>>

\* "He", "llo", [DONE]
C18_Witness ==
    /\ Finished
    /\ Len(received) = 3
    /\ received[3].kind = "done"
    /\ events = <<chunk("", "start", FALSE), chunk("He", "token", FALSE),
                  chunk("llo", "token", FALSE), chunk("", "end", TRUE), SentinelFrame>>

(***************************************************************************)
(* The expiry instant and the error conditions of a cache.                 *)
(***************************************************************************)
\* C19 as stated: a get returns a value only for a key whose last refresh (set
\* or get hit) is less than ttl_seconds back: now < expiresAt, so that a get
\* at exactly expiresAt returns None.
C19_ReadBeforeExpiry ==
    (JustGot /\ lastCall.ret # None) =>
        /\ Live(lastCall.known)
        /\ clock < lastCall.known.touch + cache.ttl_seconds

\* C19 as amended: a get returns a value only for a key whose last refresh is
\* at most ttl_seconds back: now <= expiresAt; a get at exactly expiresAt
\* still returns the value, and only a later one returns None.
C19_ReadUntilExpiry ==
    JustGot =>
        /\ lastCall.ret # None =>
              /\ Live(lastCall.known)
              /\ clock <= lastCall.known.touch + cache.ttl_seconds
        /\ (Live(lastCall.known) /\ clock = lastCall.known.touch + cache.ttl_seconds) =>
              lastCall.ret = lastCall.known.v

\* a get exactly ttl_seconds after the key was set returns the value
C19_Witness ==
    /\ JustGot
    /\ Live(lastCall.known)
    /\ clock = lastCall.known.t + cache.ttl_seconds
    /\ lastCall.known.touch = lastCall.known.t
    /\ lastCall.ret = lastCall.known.v

\* C20: a set returns normally, whatever max_size the cache was constructed
\* with (0 included), whatever it holds and whatever the key.
C20_SetNeverRaises ==
    lastCall.op = "set" => lastCall.raised = None

(***************************************************************************)
(* Misses and the reported size.                                           *)
(***************************************************************************)
\* the stored keys whose last refresh is more than ttl_seconds back
StoredExpired ==
    { k \in DOMAIN cache._cache :
        \E i \in DOMAIN cache._access_times :
            /\ cache._access_times[i].key = k
            /\ clock - cache._access_times[i].t > cache.ttl_seconds }

\* C21: a get never raises; a get of a key that was never set, was removed for
\* room or has expired returns None, and after it neither the value map nor
\* the timestamp map holds the key.
C21_MissReturnsNone ==
    JustGot =>
        /\ lastCall.raised = None
        /\ ~Live(lastCall.known) =>
              /\ lastCall.ret = None
              /\ lastCall.key \notin DOMAIN cache._cache
              /\ lastCall.key \notin DictKeys(cache._access_times)

\* a get of an expired key returned None while another entry stayed
C21_Witness ==
    /\ JustGot
    /\ lastCall.known = Gone
    /\ lastCall.ret = None
    /\ Size(cache) = 1

\* C22: right after a get or a set (the clock has not moved since) no stored
\* entry is expired, so the size the service reports is the number of
\* unexpired entries; at any other time it exceeds that number by the stored
\* entries that have expired since, and by nothing else.
C22_SizeCountsLive ==
    /\ lastCall.op # "none" => StoredExpired = {}
    /\ ReportedSize(cache) =
          Cardinality({ k \in Keys : Live(hist[k]) }) + Cardinality(StoredExpired)
    /\ StoredExpired \subseteq { k \in Keys : hist[k] = Gone }

\* a get of a live key has purged an expired one: one entry is reported
C22_Witness ==
    /\ JustGot
    /\ lastCall.ret # None
    /\ \E k \in Keys : hist[k] = Gone /\ k \notin DOMAIN cache._cache
    /\ ReportedSize(cache) = 1

(***************************************************************************)
(* Error frames of a failed connection.                                    *)
(***************************************************************************)
\* opening the connection failed: a status other than 200, or max_retries faults
OpenFailed == Exhausted \/ (outcomes # <<>> /\ Rejected(Len(outcomes)))

DoneLines == { n \in DOMAIN received : received[n].kind = "done" }

\* C28: a [DONE] line, with or without the "data:" prefix, is the last line
\* read; the frames yielded for it are End and, before End, at most the
\* Heartbeat that was due when it arrived; after End only the sentinel
\* follows; and unless the consumer closes the generator End is yielded.
C28_NothingAfterDone ==
    \A n \in DoneLines :
        /\ n = Len(received)
        /\ pc \in {"y_heartbeat", "y_end", "y_sentinel", "closed"}
        /\ \A i \in DOMAIN events : stamps[i].line <= n
        /\ \A i \in LineEvents(n) : events[i].event \in {"heartbeat", "end"}
        /\ \A e \in EndIndices : \A j \in DOMAIN events :
              /\ (j < e /\ j \in LineEvents(n)) => events[j].event = "heartbeat"
              /\ j > e => events[j] = SentinelFrame
        /\ (Processed(n) /\ cancelled = "no") => Cardinality(EndIndices) = 1

\* a Token, then [DONE] without the "data:" prefix: End and the sentinel
C28_Witness ==
    /\ Finished
    /\ Len(received) = 2
    /\ received[2].kind = "done" /\ ~received[2].framed
    /\ events = <<chunk("", "start", FALSE), chunk("He", "token", FALSE),
                  chunk("", "end", TRUE), SentinelFrame>>

\* a JSON chunk none of whose choices holds a null delta or a null content
WellFormed(l) ==
    /\ l.kind = "json"
    /\ \A i \in DOMAIN l.choices : l.choices[i].shape \in {"content", "nocontent", "nodelta"}

TokensOf(n) == { i \in LineEvents(n) : events[i].event = "token" }

C30_ReleasedOnCancel ==
    cancelled # "no" => conn # "open"

C25_CountsAddUp ==
    /\ metrics.requests_total = recorded.calls
    /\ metrics.requests_total = metrics.requests_success + metrics.requests_error
    /\ metrics.requests_success = recorded.successes

C25_Witness ==
    /\ recorded.calls = 3
    /\ recorded.successes = 2
    /\ metrics.requests_error = 1

(***************************************************************************)
(* C26.  Requests rejected by validation.                                  *)
(***************************************************************************)
MissingInput(body) == ~Truthy(body.code) /\ ~UrlsGiven(body.urls) /\ ~Truthy(body.url)

BadMode(body) == body.mode # None /\ body.mode \notin Modes

\* C26: a request that carries none of code, urls and url, or whose mode is not
\* one of the six modes, is answered 400 with 'Missing ...' or 'Invalid mode',
\* and for it no fetch_code call is made, no stream is started and no cache
\* is changed.
C26_RejectedBeforeAnyWork ==
    handled > 0 /\ (MissingInput(request.body) \/ BadMode(request.body)) =>
        /\ request.reply.status = 400
        /\ request.reply.message \in {"Missing 'code' or 'urls' or 'url'", "Invalid mode"}
        /\ request.reply.fetched = <<>>
        /\ request.reply.http = 0
        /\ ~request.reply.stream
        /\ ~request.mutated

\* The same for the requests whose body is a JSON object.
C26_ObjectRejectedBeforeAnyWork ==
    handled > 0 /\ request.body.shape = "object"
      /\ (MissingInput(request.body) \/ BadMode(request.body)) =>
        /\ request.reply.status = 400
        /\ MissingInput(request.body) =>
              request.reply.message = "Missing 'code' or 'urls' or 'url'"
        /\ ~MissingInput(request.body) => request.reply.message = "Invalid mode"
        /\ request.reply.fetched = <<>>
        /\ request.reply.http = 0
        /\ ~request.reply.stream
        /\ ~request.mutated

C26_ObjectWitness ==
    /\ handled = 2
    /\ DOMAIN cache._cache # {}
    /\ request.body.url = "u2"
    /\ BadMode(request.body)
    /\ request.reply.message = "Invalid mode"

(***************************************************************************)
(* C27.  sanitize_code.                                                    *)
(***************************************************************************)
SameLetter(a, b) ==
    \/ a = b
    \/ {a, b} \in {{"A", "a"}, {"I", "i"}, {"S", "s"}}

\* the line holds a blocked pattern, in whatever case
HoldsPattern(line) ==
    \E n \in DOMAIN blocked_patterns :
        LET p == blocked_patterns[n] IN
        \E i \in 1..(Len(line) - Len(p) + 1) :
            \A j \in 1..Len(p) : SameLetter(line[i + j - 1], p[j])

\* the first characters of the line after its indentation are //, #, /* or *
CommentLine(line) ==
    \E i \in DOMAIN line :
        /\ \A j \in 1..(i - 1) : line[j] = " "
        /\ \/ line[i] \in {"#", "*"}
           \/ line[i] = "/" /\ i < Len(line) /\ line[i + 1] \in {"/", "*"}

SafeLine(line) == ~HoldsPattern(line) /\ ~CommentLine(line)

\* C27: sanitize_code returns the lines of its input in their order with some
\* removed; no line returned holds a blocked pattern in any case, and every
\* input line that holds no blocked pattern and does not start with a comment
\* marker is returned unchanged.
C27_SafeLinesKept ==
    sanitized # NotRun =>
        LET given == splitlines(source)
            out == sanitized.out
        IN  /\ out = SelectSeq(given, LAMBDA line : \E i \in DOMAIN out : out[i] = line)
            /\ \A i \in DOMAIN out : ~HoldsPattern(out[i])
            /\ SelectSeq(out, SafeLine) = SelectSeq(given, SafeLine)
            /\ sanitized.text = join(out)

C27_Witness ==
    /\ splitlines(source) = << <<" ", "A", "I", ":", "x">>, <<" ", "x", " ">> >>
    /\ sanitized.out = << <<" ", "x", " ">> >>
    /\ sanitized.text = <<" ", "x", " ">>

(***************************************************************************)
(* C34, C35.  What a set of a present key removes; the two maps.           *)
(***************************************************************************)
\* C34: a set of a key that is present and unexpired removes no other entry,
\* also when the cache is at capacity: it overwrites the value and refreshes
\* the timestamp of that key only.
C34_OverwriteKeepsOthers ==
    JustSet /\ Live(lastCall.known) =>
        /\ lastCall.evicted \in {None, lastCall.key}
        /\ cache._cache[lastCall.key] = hist[lastCall.key].v
        /\ DictGet(cache._access_times, lastCall.key) = clock

\* C35: after every get and set of a single caller _cache and _access_times
\* have the same key set.
C35_SameKeySets ==
    DOMAIN cache._cache = DictKeys(cache._access_times)

\* a set has removed an entry for room after an earlier call purged an expired one
C35_Witness ==
    /\ JustSet
    /\ lastCall.evicted # None
    /\ \E k \in Keys : hist[k] = Gone
    /\ Size(cache) = cache.max_size
    /\ DictKeys(cache._access_times) # {}

(***************************************************************************)
(* C36.  GitHubCache and ResponseCache.                                    *)
(***************************************************************************)
\* C36: a GitHubCache and a ResponseCache constructed with the same max_size
\* and ttl and given the same get and set calls at the same times hold the
\* same keys after every step and answer every get alike (the value returned,
\* the exception raised).
C36_SamePolicy ==
    /\ DOMAIN cache._cache = DOMAIN response_cache._cache
    /\ DictKeys(cache._access_times) = DictKeys(response_cache._access_times)
    /\ \A k \in Keys :
          /\ CacheGet(cache, k, clock).ret = ResponseCache_get(response_cache, k, clock).ret
          /\ CacheGet(cache, k, clock).raised
                = ResponseCache_get(response_cache, k, clock).raised

\* both are full, one of their entries has expired and another has not
C36_Witness ==
    /\ cache.max_size = 2
    /\ Size(cache) = 2
    /\ Size(response_cache) = 2
    /\ \E k \in DOMAIN cache._cache : IsExpired(cache, k, clock)
    /\ \E k \in DOMAIN response_cache._cache : ~ResponseCache_is_expired(response_cache, k, clock)
    /\ \E k \in Keys : k \notin DOMAIN response_cache._cache

(***************************************************************************)
(* C32, C33.  fetch_code and the cache of fetched files.                   *)
(***************************************************************************)
\* C32: fetch_code for a URL whose key holds an unexpired entry returns the
\* cached content and sends no HTTP request, whatever the content is, an
\* empty file included.
C32_HitServedFromCache ==
    fetch.held # None =>
        /\ fetch.raised = None
        /\ fetch.ret = fetch.held
        /\ ~fetch.http

\* The same for the entries whose content is not empty.
C32_NonEmptyHitServedFromCache ==
    fetch.held # None /\ fetch.held # "" =>
        /\ fetch.raised = None
        /\ fetch.ret = fetch.held
        /\ ~fetch.http

C32_NonEmptyWitness ==
    /\ fetch.held = "safe"
    /\ fetch.ret = "safe"
    /\ clock = FetchStep

ValueErrors ==
    {"Unsupported GitHub URL", "GitHub fetch failed", "File too large",
     "Network error fetching code"}

\* C33: a fetch_code that fails raises ValueError and inserts nothing: the
\* cache holds afterwards no entry that it did not hold before the call, and
\* the entries it holds have the content they had.
C33_FailureInsertsNothing ==
    fetch.raised # None =>
        /\ fetch.raised \in ValueErrors
        /\ fetch.ret = None
        /\ DOMAIN cache._cache \subseteq DOMAIN fetch.before
        /\ \A k \in DOMAIN cache._cache : cache._cache[k] = fetch.before[k]

\* a GET has failed for a key that the cache did not hold, another key is held
C33_Witness ==
    /\ fetch.raised = "GitHub fetch failed"
    /\ fetch.http
    /\ fetch.url = "u1"
    /\ DOMAIN cache._cache = {"k2"}

(***************************************************************************)
(* C37.  The review handler and the request counter.                       *)
(***************************************************************************)
\* C37: every request that reaches the review handler calls record_request
\* exactly once, whatever path it takes, so requests_total is the number of
\* requests handled.
C37_RecordedOncePerRequest ==
    /\ handled > 0 => request.reply.calls = 1
    /\ metrics.requests_total = handled
    /\ recorded.calls = handled

\* The same for the requests whose body is a JSON object: one call on each of
\* the paths, with success=True on the path that starts the stream only.
C37_ObjectRecordedOnce ==
    handled > 0 /\ request.body.shape = "object" =>
        /\ request.reply.calls = 1
        /\ request.reply.status \in {200, 400}
        /\ request.reply.stream <=> request.reply.status = 200

C37_ObjectWitness ==
    /\ handled = 2
    /\ request.body.shape = "object"
    /\ request.reply.message = "Network error fetching code"
    /\ metrics.requests_error = 1
    /\ metrics.requests_success = 1

(***************************************************************************)
(* C31.  Termination of a session.                                         *)
(***************************************************************************)
\* the last frame of the session: the sentinel, or the terminal error frame
FinalEvent ==
    /\ events # <<>>
    /\ \/ events[Len(events)] = SentinelFrame
       \/ events[Len(events)].event = "error" /\ events[Len(events)].done

\* C31: a session whose upstream line sequence is finite and whose consumer
\* keeps pulling terminates: after at most max_retries attempts and after the
\* last line it reaches its final event and the generator has returned.
C31_SessionTerminates ==
    <>(Finished /\ Len(outcomes) <= max_retries /\ FinalEvent)

\* the third attempt opened the stream, lines were read up to [DONE]
C31_Witness ==
    /\ Finished
    /\ Len(outcomes) = max_retries
    /\ Opened
    /\ Len(received) = MaxLines
    /\ received[MaxLines].text = "[DONE]"
    /\ FinalEvent

====
